---- MODULE Spec2Model ----
(***************************************************************************)
(* Verification model of the Private Extension Manager core:               *)
(*   - the version comparator   (StorageProvider.compareVersions)          *)
(*   - duplicate resolution     (StorageProvider.deduplicateExtensions)    *)
(*   - metadata reconciliation  (extractExtensionDataWithManifestPriority) *)
(*   - the ZIP reader           (VsixParser)                               *)
(* Strings that the code inspects character by character (version strings, *)
(* file names) are sequences; opaque strings are TLA+ strings.             *)
(***************************************************************************)
EXTENDS Integers, Sequences, FiniteSets, TLC

VARIABLES
    pc,     \* the phase of the run
    va,     \* first version string
    vb,     \* second version string
    vc,     \* third version string (three-operand specification)
    vres,   \* compareVersions(va, vb)
    ord,    \* the comparator's results on va, vb, vc
    extensions,        \* the records collected by a scan, in scan order
    uniqueExtensions,  \* the result of deduplicateExtensions
    manifestXml,       \* the manifest entry's text, <<>> when there is none
    packageJson,       \* the decoded descriptor, <<>> for null
    manifest,          \* the decoded manifest, <<>> for null
    extensionData,     \* result of extractExtensionDataWithManifestPriority
    extensionInfo,     \* result of parseVsixFileComplete, <<>> for null
    validation,        \* result of validateVsixFile
    vsixFile,          \* the file at filePath: <<>> when missing, else <<bytes>>
    fileBuffer,        \* this.fileBuffer: <<>> for undefined, else <<bytes>>
    centralDirectory,  \* this.centralDirectory
    parseError,        \* the message of the error parse() threw, "" for none
    extracted,         \* an extractFile call: the entry's position and the outcome
    iconPath,          \* the argument of extractIcon, <<>> before the call
    iconEntry,         \* iconEntry of extractIcon, <<>> for undefined
    iconBuffer,        \* what extractIcon returned, <<>> for null
    iconSource,        \* iconSource of parseVsixFileComplete, <<>> when falsy
    readme,            \* an extractReadme call: the entry found and the text returned
    changelog,         \* an extractChangelog call, likewise
    configured,        \* the vsixDirectories setting
    directories,       \* directories of getAllExtensions
    scanned,           \* the directories the loop of getAllExtensions has done
    warnings,          \* the directories a warning was shown for
    disk,              \* the generation of the directories' content
    isInitialized,     \* this._isInitialized
    isRefreshing,      \* this._isRefreshing
    extensionCache,    \* this._extensionCache, in insertion order
    calls,             \* the refresh and scanAllDirectories calls made so far
    timers,            \* the pending timers of setTimeout
    refreshTimeout,    \* this.refreshTimeout: a timer handle, 0 for undefined
    nextTimer,         \* the handle the next setTimeout returns
    watching,          \* this._watchers holds open watchers
    disposed,          \* dispose() has been called
    fired,             \* the payloads the onDidChange listeners received
    lastCompleted,     \* the records of the last completed scan, <<>> before any
    burst,             \* watcher events since the last debounced scan
    isScanning,        \* the sidebar's _isScanning
    loadingPromise,    \* the sidebar's _loadingPromise is set
    background,        \* the scanDirectoriesInBackground call executing, <<>> for none
    installedExtensions  \* vscode.extensions: the installed version of each id

versionVars == <<va, vb, vc, vres, ord>>

dedupVars == <<extensions, uniqueExtensions>>

reconcileVars ==
    <<manifestXml, packageJson, manifest, extensionData, extensionInfo, validation>>

iconVars == <<iconPath, iconEntry, iconBuffer, iconSource>>

docVars == <<readme, changelog>>

zipVars ==
    <<vsixFile, fileBuffer, centralDirectory, parseError, extracted, iconVars, docVars>>

scanVars == <<configured, directories, scanned, warnings>>

providerVars ==
    <<disk, isInitialized, isRefreshing, extensionCache, calls, timers,
      refreshTimeout, nextTimer, watching, disposed, fired, lastCompleted, burst,
      isScanning, loadingPromise, background, installedExtensions>>

vars == <<pc, versionVars, dedupVars, reconcileVars, zipVars, scanVars, providerVars>>

(***************************************************************************)
(* Bounds of the version inputs                                            *)
(***************************************************************************)
MaxSegs == 2

\* the text of one dot-separated segment: numeric, numeric with a trailing
\* letter, and purely alphabetic
SegTexts == {<<"0">>, <<"2">>, <<"1", "0">>, <<"1", "a">>, <<"a">>}

\* what may follow the core: nothing, a prerelease tag, build metadata,
\* build metadata that itself contains a '-'
Suffixes == {<<>>, <<"-", "a">>, <<"+", "a">>, <<"+", "a", "-", "a">>}

RECURSIVE Cores(_)
Cores(n) ==
    IF n = 1 THEN SegTexts
    ELSE Cores(n - 1) \cup
         {c \o <<".">> \o s : c \in Cores(n - 1), s \in SegTexts}

Versions == {c \o s : c \in Cores(MaxSegs), s \in Suffixes}

\* build metadata strings appended after a '+'
Builds == {<<"a">>, <<"a", "-", "a">>}

\* the smaller input set of the three-operand specification
OrderSegTexts == {<<"0">>, <<"1", "a">>}

OrderSuffixes == {<<>>, <<"-", "a">>, <<"+", "a", "-", "a">>}

RECURSIVE OrderCores(_)
OrderCores(n) ==
    IF n = 1 THEN OrderSegTexts
    ELSE OrderCores(n - 1) \cup
         {c \o <<".">> \o s : c \in OrderCores(n - 1), s \in OrderSegTexts}

OrderVersions == {c \o s : c \in OrderCores(MaxSegs), s \in OrderSuffixes}

(***************************************************************************)
(* JavaScript string primitives used by the comparator                     *)
(***************************************************************************)
Digits == {"0", "1", "2", "3", "4", "5", "6", "7", "8", "9"}

DigitVal(c) ==
    CASE c = "0" -> 0 [] c = "1" -> 1 [] c = "2" -> 2 [] c = "3" -> 3
      [] c = "4" -> 4 [] c = "5" -> 5 [] c = "6" -> 6 [] c = "7" -> 7
      [] c = "8" -> 8 [] c = "9" -> 9

\* String.prototype.includes for a one-character needle
Includes(s, ch) == \E i \in 1..Len(s) : s[i] = ch

\* String.prototype.split for a one-character separator: always at least one
\* piece, an empty string gives one empty piece
RECURSIVE SplitAcc(_, _, _, _)
SplitAcc(s, ch, i, cur) ==
    IF i > Len(s) THEN <<cur>>
    ELSE IF s[i] = ch THEN <<cur>> \o SplitAcc(s, ch, i + 1, <<>>)
    ELSE SplitAcc(s, ch, i + 1, Append(cur, s[i]))

Split(s, ch) == SplitAcc(s, ch, 1, <<>>)

\* parseInt(part, 10): the value of the longest leading run of decimal digits,
\* NaN when the text does not start with a digit.  (Leading white space and a
\* sign are accepted by parseInt as well; neither can occur in a piece cut at
\* '-', '+' and '.' from the inputs used here.)
NaN == -1

RECURSIVE ParseIntAcc(_, _, _)
ParseIntAcc(s, i, acc) ==
    IF i > Len(s) \/ s[i] \notin Digits THEN acc
    ELSE ParseIntAcc(s, i + 1, 10 * acc + DigitVal(s[i]))

ParseInt(s) ==
    IF Len(s) = 0 \/ s[1] \notin Digits THEN NaN ELSE ParseIntAcc(s, 1, 0)

\* x || 0 on a number: NaN and 0 are falsy
OrZero(x) == IF x = NaN \/ x = 0 THEN 0 ELSE x

Max(a, b) == IF a >= b THEN a ELSE b

Min(a, b) == IF a <= b THEN a ELSE b

(***************************************************************************)
(* StorageProvider.compareVersions                                         *)
(***************************************************************************)
\* version.split('-')[0].split('+')[0]
CleanVersion(version) == Split(Split(version, "-")[1], "+")[1]

\* cleanVersion.split('.').map(part => parseInt(part, 10) || 0)
VersionParts(version) ==
    LET pieces == Split(CleanVersion(version), ".")
    IN  [i \in 1..Len(pieces) |-> OrZero(ParseInt(pieces[i]))]

\* v1Parts[i] || 0 : an index past the end reads undefined
PartAt(parts, i) == IF i <= Len(parts) THEN parts[i] ELSE 0

\* mutant: the loop stops at the shorter operand
MaxLength_shorter(v1Parts, v2Parts) == Min(Len(v1Parts), Len(v2Parts))

\* Math.max(v1Parts.length, v2Parts.length)
MaxLength(v1Parts, v2Parts) == Max(Len(v1Parts), Len(v2Parts))

\* mutant: no early return, the last unequal segment decides
RECURSIVE ComparePartsFrom_last(_, _, _, _)
ComparePartsFrom_last(p1, p2, i, maxLength) ==
    IF i > maxLength THEN 0
    ELSE LET later == ComparePartsFrom_last(p1, p2, i + 1, maxLength)
         IN  IF later # 0 THEN later
             ELSE IF PartAt(p1, i) > PartAt(p2, i) THEN 1
             ELSE IF PartAt(p1, i) < PartAt(p2, i) THEN -1
             ELSE 0

\* the for loop of compareVersions, from index i (1-based here)
RECURSIVE ComparePartsFrom(_, _, _, _)
ComparePartsFrom(p1, p2, i, maxLength) ==
    IF i > maxLength THEN 0
    ELSE IF PartAt(p1, i) > PartAt(p2, i) THEN 1
    ELSE IF PartAt(p1, i) < PartAt(p2, i) THEN -1
    ELSE ComparePartsFrom(p1, p2, i + 1, maxLength)

compareVersions(version1, version2) ==
    LET v1Parts == VersionParts(version1)
        v2Parts == VersionParts(version2)
        maxLength == MaxLength(v1Parts, v2Parts)
        core == ComparePartsFrom(v1Parts, v2Parts, 1, maxLength)
    IN  IF core # 0 THEN core
        ELSE IF Includes(version1, "-") /\ ~Includes(version2, "-") THEN -1
        ELSE IF ~Includes(version1, "-") /\ Includes(version2, "-") THEN 1
        ELSE 0

NoOrd == [aa |-> 0, ab |-> 0, ba |-> 0, bc |-> 0, ac |-> 0]

(***************************************************************************)
(* The parts of the state a specification does not use keep these values.  *)
(***************************************************************************)
VersionIdle == va = <<>> /\ vb = <<>> /\ vc = <<>> /\ vres = 0 /\ ord = NoOrd

DedupIdle == extensions = <<>> /\ uniqueExtensions = <<>>

ReconcileIdle ==
    /\ manifestXml = <<>>
    /\ packageJson = <<>>
    /\ manifest = <<>>
    /\ extensionData = <<>>
    /\ extensionInfo = <<>>
    /\ validation = <<>>

ZipIdle ==
    /\ vsixFile = <<>>
    /\ fileBuffer = <<>>
    /\ centralDirectory = <<>>
    /\ parseError = ""
    /\ extracted = <<>>
    /\ readme = <<>>
    /\ changelog = <<>>
    /\ iconPath = <<>>
    /\ iconEntry = <<>>
    /\ iconBuffer = <<>>
    /\ iconSource = <<>>

ProviderIdle ==
    /\ disk = 0
    /\ isInitialized = FALSE
    /\ isRefreshing = FALSE
    /\ extensionCache = <<>>
    /\ calls = <<>>
    /\ timers = {}
    /\ refreshTimeout = 0
    /\ nextTimer = 1
    /\ watching = FALSE
    /\ disposed = FALSE
    /\ fired = <<>>
    /\ lastCompleted = <<>>
    /\ burst = 0
    /\ isScanning = FALSE
    /\ loadingPromise = FALSE
    /\ background = <<>>
    /\ installedExtensions = <<>>

ScanIdle ==
    /\ configured = <<>>
    /\ directories = <<>>
    /\ scanned = 0
    /\ warnings = <<>>

(***************************************************************************)
(* Specification of the comparator: a version string is drawn, a second    *)
(* operand is drawn and the comparator is applied.                         *)
(***************************************************************************)
InitVersions ==
    /\ pc = "versions"
    /\ va \in Versions
    /\ vb = <<>>
    /\ vc = <<>>
    /\ vres = 0
    /\ ord = NoOrd
    /\ DedupIdle
    /\ ReconcileIdle
    /\ ZipIdle
    /\ ScanIdle
    /\ ProviderIdle

\* compareVersions(va, b)
CompareVersions ==
    /\ pc = "versions"
    /\ \E b \in Versions :
          /\ vb' = b
          /\ vres' = compareVersions(va, b)
    /\ pc' = "compared"
    /\ UNCHANGED <<va, vc, ord, dedupVars, reconcileVars, zipVars, scanVars, providerVars>>

\* compareVersions(v + "+" + m, v)
CompareWithBuild ==
    /\ pc = "versions"
    /\ \E m \in Builds :
          /\ va' = va \o <<"+">> \o m
          /\ vb' = va
          /\ vres' = compareVersions(va \o <<"+">> \o m, va)
    /\ pc' = "compared"
    /\ UNCHANGED <<vc, ord, dedupVars, reconcileVars, zipVars, scanVars, providerVars>>

NextVersions == CompareVersions \/ CompareWithBuild

SpecVersions == InitVersions /\ [][NextVersions]_vars

(***************************************************************************)
(* Specification of the comparator as an order: three version strings,     *)
(* compared pairwise.                                                      *)
(***************************************************************************)
InitOrder ==
    /\ pc = "order"
    /\ va \in OrderVersions
    /\ vb \in OrderVersions
    /\ vc = <<>>
    /\ vres = 0
    /\ ord = NoOrd
    /\ DedupIdle
    /\ ReconcileIdle
    /\ ZipIdle
    /\ ScanIdle
    /\ ProviderIdle

CompareThree ==
    /\ pc = "order"
    /\ \E c \in OrderVersions :
          /\ vc' = c
          /\ ord' = [aa |-> compareVersions(va, va),
                     ab |-> compareVersions(va, vb),
                     ba |-> compareVersions(vb, va),
                     bc |-> compareVersions(vb, c),
                     ac |-> compareVersions(va, c)]
    /\ pc' = "ordered"
    /\ UNCHANGED <<va, vb, vres, dedupVars, reconcileVars, zipVars, scanVars, providerVars>>

NextOrder == CompareThree

SpecOrder == InitOrder /\ [][NextOrder]_vars

(***************************************************************************)
(* StorageProvider.deduplicateExtensions                                   *)
(***************************************************************************)
MaxExtensions == 3

DedupIds == {"acme.foo", "acme.bar"}

DedupVersions ==
    {<<"1", ".", "0", ".", "0">>, <<"1", ".", "1", ".", "0">>,
     <<"1", ".", "0">>, <<"1", ".", "1", ".", "0", "-", "a">>}

\* the lists a scan can collect: every archive is its own file, so the
\* records differ at least in filePath
RECURSIVE ExtensionLists(_)
ExtensionLists(n) ==
    IF n = 0 THEN {<<>>}
    ELSE ExtensionLists(n - 1) \cup
         {Append(l, [id |-> i, version |-> v, filePath |-> n]) :
             l \in {x \in ExtensionLists(n - 1) : Len(x) = n - 1},
             i \in DedupIds, v \in DedupVersions}

\* mutant: a record of equal version replaces the kept one
Replaces_orEqual(ext, existing) ==
    compareVersions(ext.version, existing.version) >= 0

\* this.compareVersions(ext.version, existing.version) > 0
Replaces(ext, existing) ==
    compareVersions(ext.version, existing.version) > 0

\* Map.get on a map kept as the sequence of its values in insertion order:
\* the position of the key, 0 when absent
MapIndex(map, id) ==
    IF \E i \in 1..Len(map) : map[i].id = id
    THEN CHOOSE i \in 1..Len(map) : map[i].id = id
    ELSE 0

\* Map.set: a new key is appended, an existing key keeps its position
MapSet(map, ext) ==
    LET i == MapIndex(map, ext.id)
    IN  IF i = 0 THEN Append(map, ext) ELSE [map EXCEPT ![i] = ext]

\* the body of the for loop for the k-th record
RECURSIVE DedupFrom(_, _, _)
DedupFrom(exts, k, extensionMap) ==
    IF k > Len(exts) THEN extensionMap
    ELSE LET ext == exts[k]
             i == MapIndex(extensionMap, ext.id)
         IN  IF i = 0 \/ Replaces(ext, extensionMap[i])
             THEN DedupFrom(exts, k + 1, MapSet(extensionMap, ext))
             ELSE DedupFrom(exts, k + 1, extensionMap)

\* Array.from(extensionMap.values())
deduplicateExtensions(exts) == DedupFrom(exts, 1, <<>>)

InitDedup ==
    /\ pc = "scanned"
    /\ extensions \in ExtensionLists(MaxExtensions)
    /\ uniqueExtensions = <<>>
    /\ VersionIdle
    /\ ReconcileIdle
    /\ ZipIdle
    /\ ScanIdle
    /\ ProviderIdle

DeduplicateExtensions ==
    /\ pc = "scanned"
    /\ uniqueExtensions' = deduplicateExtensions(extensions)
    /\ pc' = "deduplicated"
    /\ UNCHANGED <<versionVars, extensions, reconcileVars, zipVars, scanVars, providerVars>>

NextDedup == DeduplicateExtensions

SpecDedup == InitDedup /\ [][NextDedup]_vars

(***************************************************************************)
(* Values of the metadata documents.  A string field holds a TLA+ string,  *)
(* Undefined when the property is missing; a version holds the characters  *)
(* of the version string, <<>> when it is missing or empty; an optional    *)
(* array or object is <<>> when missing and <<value>> when present.        *)
(***************************************************************************)
Undefined == "<undefined>"

\* JavaScript truthiness of a string-or-undefined value
Truthy(s) == s # Undefined /\ s # ""

\* a || b on string-or-undefined values
Or(a, b) == IF Truthy(a) THEN a ELSE b

\* a || b on values kept as sequences (versions, optional arrays)
OrSeq(a, b) == IF a # <<>> THEN a ELSE b

(***************************************************************************)
(* VsixParser.parseManifestXml.  The manifest text is kept as what the     *)
(* regular expressions of the parser can see in it: the attributes of the  *)
(* first Identity tag, the text of the DisplayName, Description and        *)
(* Categories elements, the InstallationTarget tags and the Asset tags; an *)
(* attribute or element text of "" stands for one that is missing or       *)
(* empty, which [^"]+ and [^<]+ do not match.  The text also carries the   *)
(* Tags, GalleryFlags and Property elements of the document.  A comma-     *)
(* separated element text is kept as the sequence of its trimmed items.    *)
(***************************************************************************)
\* the Metadata entry pushed when Id, Version and Publisher all match
IdentityMetadata(xml) ==
    LET tag == xml.Identity[1]
    IN  [Identity |-> <<[Id |-> tag.Id,
                         Version |-> tag.Version,
                         Publisher |-> tag.Publisher,
                         Language |-> IF tag.Language # "" THEN tag.Language
                                      ELSE "en-US"]>>,
         DisplayName |-> IF xml.DisplayName # "" THEN <<xml.DisplayName>> ELSE <<>>,
         Description |-> IF xml.Description # ""
                         THEN <<[text |-> xml.Description]>> ELSE <<>>,
         Categories |-> IF xml.Categories # <<>> THEN <<xml.Categories>> ELSE <<>>,
         Tags |-> <<>>,
         GalleryFlags |-> <<>>,
         Properties |-> <<>>]

\* idMatch && versionMatch && publisherMatch on the first Identity tag
IdentityMatches(xml) ==
    /\ Len(xml.Identity) > 0
    /\ xml.Identity[1].Id # ""
    /\ xml.Identity[1].Version # <<>>
    /\ xml.Identity[1].Publisher # ""

\* only the first InstallationTarget tag is matched, and it must carry both
\* an Id and a Version
InstallationOf(xml) ==
    IF /\ Len(xml.InstallationTargets) > 0
       /\ xml.InstallationTargets[1].Id # ""
       /\ xml.InstallationTargets[1].Version # ""
    THEN <<[InstallationTarget |-> <<xml.InstallationTargets[1]>>]>>
    ELSE <<>>

AssetsOf(xml) ==
    IF Len(xml.Assets) > 0 THEN <<[Asset |-> xml.Assets]>> ELSE <<>>

parseManifestXml(xml) ==
    [Metadata |-> IF IdentityMatches(xml) THEN <<IdentityMetadata(xml)>> ELSE <<>>,
     Installation |-> InstallationOf(xml),
     Assets |-> AssetsOf(xml)]

(***************************************************************************)
(* StorageProvider.extractExtensionDataWithManifestPriority                *)
(***************************************************************************)
EngineKey == "Microsoft.VisualStudio.Code.Engine"

SourceKey == "Microsoft.VisualStudio.Services.Links.Source"

GetstartedKey == "Microsoft.VisualStudio.Services.Links.Getstarted"

LicenseKey == "Microsoft.VisualStudio.Services.Links.License"

\* propertyMap[key] after the forEach: the Value of the last Property with
\* that Id among those whose Id and Value are both non-empty
PropertyValue(properties, key) ==
    LET hits == {i \in 1..Len(properties) :
                    /\ Truthy(properties[i].Id)
                    /\ Truthy(properties[i].Value)
                    /\ properties[i].Id = key}
    IN  IF hits = {} THEN Undefined
        ELSE properties[CHOOSE i \in hits : \A j \in hits : j <= i].Value

\* manifestData = {} : nothing is set
NoManifestData ==
    [id |-> Undefined, version |-> <<>>, publisher |-> Undefined,
     language |-> Undefined, title |-> Undefined, description |-> Undefined,
     categories |-> <<>>, tags |-> <<>>, galleryFlags |-> <<>>,
     engines |-> Undefined, repository |-> Undefined, homepage |-> Undefined,
     license |-> Undefined]

\* mutant: the display name alone, without the identity's Id behind it
ManifestTitle_displayNameOnly(metadata) ==
    IF Len(metadata.DisplayName) > 0 /\ Truthy(metadata.DisplayName[1])
    THEN metadata.DisplayName[1]
    ELSE Undefined

\* metadata.DisplayName?.[0] || identity?.Id
ManifestTitle(metadata) ==
    IF Len(metadata.DisplayName) > 0 /\ Truthy(metadata.DisplayName[1])
    THEN metadata.DisplayName[1]
    ELSE IF Len(metadata.Identity) > 0 THEN metadata.Identity[1].Id ELSE Undefined

\* mutant: an author object's name as it is, without the 'Unknown' default
PackageAuthor_noDefault(pj) ==
    IF pj.author.kind \in {"string", "object"} THEN pj.author.value ELSE Undefined

\* the fields set from Metadata[0]
MetadataData(metadata) ==
    LET hasIdentity == Len(metadata.Identity) > 0
        identity == metadata.Identity[1]
        properties == IF Len(metadata.Properties) > 0
                      THEN metadata.Properties[1] ELSE <<>>
    IN  [id |-> IF hasIdentity THEN identity.Publisher \o "." \o identity.Id
                ELSE Undefined,
         version |-> IF hasIdentity THEN identity.Version ELSE <<>>,
         publisher |-> IF hasIdentity THEN identity.Publisher ELSE Undefined,
         language |-> IF hasIdentity THEN identity.Language ELSE Undefined,
         title |-> ManifestTitle(metadata),
         description |-> IF Len(metadata.Description) = 0 THEN ""
                         ELSE IF Truthy(metadata.Description[1].text)
                         THEN metadata.Description[1].text
                         ELSE "[object Object]",
         categories |-> IF Len(metadata.Categories) > 0 /\ metadata.Categories[1] # <<>>
                        THEN <<metadata.Categories[1]>> ELSE <<>>,
         tags |-> IF Len(metadata.Tags) > 0 /\ metadata.Tags[1] # <<>>
                  THEN <<metadata.Tags[1]>> ELSE <<>>,
         galleryFlags |-> IF Len(metadata.GalleryFlags) > 0 /\ metadata.GalleryFlags[1] # <<>>
                          THEN <<metadata.GalleryFlags[1]>> ELSE <<>>,
         engines |-> PropertyValue(properties, EngineKey),
         repository |-> PropertyValue(properties, SourceKey),
         homepage |-> PropertyValue(properties, GetstartedKey),
         license |-> PropertyValue(properties, LicenseKey)]

\* manifestData without targetPlatforms
ManifestData(m) ==
    IF Len(m) > 0 /\ Len(m[1].Metadata) > 0
    THEN MetadataData(m[1].Metadata[1])
    ELSE NoManifestData

\* manifestData.targetPlatforms
TargetPlatforms(m) ==
    IF Len(m) > 0 /\ Len(m[1].Installation) > 0
    THEN LET targets == m[1].Installation[1].InstallationTarget
         IN  <<[i \in 1..Len(targets) |-> targets[i].Id]>>
    ELSE <<>>

\* packageData = {} : nothing is set
NoPackageData ==
    [id |-> Undefined, title |-> Undefined, description |-> Undefined,
     version |-> <<>>, publisher |-> Undefined, categories |-> <<>>,
     keywords |-> <<>>, engines |-> Undefined, activationEvents |-> <<>>,
     main |-> Undefined, preview |-> Undefined, galleryBanner |-> Undefined,
     license |-> Undefined, homepage |-> Undefined, author |-> Undefined,
     repository |-> Undefined]

\* mutant: the name is preferred to the display name
PackageTitle_nameFirst(pj) == Or(pj.name, pj.displayName)

\* packageJson.displayName || packageJson.name
PackageTitle(pj) == Or(pj.displayName, pj.name)

\* the author of the descriptor: a string as it is, the name of an object
\* or 'Unknown', nothing for any other type
PackageAuthor(pj) ==
    IF pj.author.kind = "string" THEN pj.author.value
    ELSE IF pj.author.kind = "object" THEN Or(pj.author.value, "Unknown")
    ELSE Undefined

\* the repository of the descriptor: a string as it is, the url of an object
PackageRepository(pj) ==
    IF pj.repository.kind = "undefined" THEN Undefined ELSE pj.repository.value

PackageData(p) ==
    IF Len(p) = 0 THEN NoPackageData
    ELSE LET pj == p[1]
         IN  [id |-> IF Truthy(pj.publisher) /\ Truthy(pj.name)
                     THEN pj.publisher \o "." \o pj.name ELSE "",
              title |-> PackageTitle(pj),
              description |-> Or(pj.description, ""),
              version |-> pj.version,
              publisher |-> pj.publisher,
              categories |-> pj.categories,
              keywords |-> pj.keywords,
              engines |-> pj.engines,
              activationEvents |-> pj.activationEvents,
              main |-> pj.main,
              preview |-> pj.preview,
              galleryBanner |-> pj.galleryBanner,
              license |-> pj.license,
              homepage |-> pj.homepage,
              author |-> PackageAuthor(pj),
              repository |-> PackageRepository(pj)]

\* mutant: the descriptor is preferred for the required fields
MergeRequired_descriptorFirst(md, pd) ==
    [id |-> Or(Or(pd.id, md.id), ""),
     version |-> OrSeq(pd.version, md.version),
     publisher |-> Or(Or(pd.publisher, md.publisher), "")]

\* id, version and publisher of the result
MergeRequired(md, pd) ==
    [id |-> Or(Or(md.id, pd.id), ""),
     version |-> OrSeq(md.version, pd.version),
     publisher |-> Or(Or(md.publisher, pd.publisher), "")]

\* mutant: the descriptor is preferred for the links and categories, the
\* manifest for the engines
MergeLinks_swapped(md, pd) ==
    [categories |-> OrSeq(pd.categories, md.categories),
     engines |-> Or(md.engines, pd.engines),
     repository |-> Or(pd.repository, md.repository),
     homepage |-> Or(pd.homepage, md.homepage),
     license |-> Or(pd.license, md.license)]

\* categories, engines, repository, homepage and license of the result
MergeLinks(md, pd) ==
    [categories |-> OrSeq(md.categories, pd.categories),
     engines |-> Or(pd.engines, md.engines),
     repository |-> Or(md.repository, pd.repository),
     homepage |-> Or(md.homepage, pd.homepage),
     license |-> Or(md.license, pd.license)]

\* the other fields of the result
MergeOthers(md, pd, targetPlatforms) ==
    MergeLinks(md, pd) @@
    [title |-> Or(Or(md.title, pd.title), ""),
     description |-> Or(Or(md.description, pd.description), ""),
     author |-> Or(Or(pd.author, md.publisher), "Unknown"),
     tags |-> md.tags,
     activationEvents |-> pd.activationEvents,
     main |-> pd.main,
     preview |-> pd.preview,
     galleryBanner |-> pd.galleryBanner,
     keywords |-> pd.keywords,
     galleryFlags |-> md.galleryFlags,
     targetPlatforms |-> targetPlatforms,
     language |-> md.language]

extractExtensionDataWithManifestPriority(m, p) ==
    MergeRequired(ManifestData(m), PackageData(p))
        @@ MergeOthers(ManifestData(m), PackageData(p), TargetPlatforms(m))

\* mutant: the version is not required
MissingRequired_noVersion(data) ==
    ~Truthy(data.id) \/ ~Truthy(data.publisher)

\* !data.id || !data.version || !data.publisher
MissingRequired(data) ==
    ~Truthy(data.id) \/ data.version = <<>> \/ ~Truthy(data.publisher)

(***************************************************************************)
(* StorageProvider.parseVsixFileComplete and validateVsixFile, from the    *)
(* result of VsixParser.parse on.  The record carries the reconciled       *)
(* fields and the installation status; its icon, readme, changelog and     *)
(* file attributes come from the archive reader.                           *)
(***************************************************************************)
\* isInstalled and hasUpdate: installedVersion is <<>> when
\* vscode.extensions.getExtension(id) finds nothing, <<version>> otherwise
InstallationStatus(data, installedVersion) ==
    [isInstalled |-> installedVersion # <<>>,
     hasUpdate |-> /\ installedVersion # <<>>
                   /\ compareVersions(data.version, installedVersion[1]) > 0]

parseVsixFileComplete(m, p, installedVersion) ==
    LET data == extractExtensionDataWithManifestPriority(m, p)
    IN  IF MissingRequired(data) THEN <<>>
        ELSE <<data @@ InstallationStatus(data, installedVersion)>>

validateVsixFile(m, p) ==
    IF MissingRequired(extractExtensionDataWithManifestPriority(m, p))
    THEN [isValid |-> FALSE,
          error |-> "Missing required fields in extension metadata"]
    ELSE [isValid |-> TRUE, error |-> Undefined]

(***************************************************************************)
(* The documents the reconciler is applied to                              *)
(***************************************************************************)
V_1_2_3 == <<"1", ".", "2", ".", "3">>

V_2_0_0 == <<"2", ".", "0", ".", "0">>

Authors ==
    {[kind |-> "undefined", value |-> Undefined],
     [kind |-> "string", value |-> ""],
     [kind |-> "string", value |-> "Ann Author"],
     [kind |-> "object", value |-> "Bob Builder"],
     [kind |-> "object", value |-> Undefined]}

\* a descriptor; a rich one sets every optional property
Descriptor(name, publisher, version, displayName, author, rich) ==
    [name |-> name,
     displayName |-> displayName,
     description |-> IF rich THEN "descriptor description" ELSE Undefined,
     version |-> version,
     publisher |-> publisher,
     author |-> author,
     icon |-> IF rich THEN "images/icon.png" ELSE Undefined,
     categories |-> IF rich THEN <<<<"Other">>>> ELSE <<>>,
     keywords |-> IF rich THEN <<<<"private", "vsix">>>> ELSE <<>>,
     engines |-> IF rich THEN "^1.80.0" ELSE Undefined,
     activationEvents |-> IF rich THEN <<<<"onStartupFinished">>>> ELSE <<>>,
     main |-> IF rich THEN "./out/extension.js" ELSE Undefined,
     preview |-> IF rich THEN "true" ELSE Undefined,
     galleryBanner |-> IF rich THEN "#1e1e1e/dark" ELSE Undefined,
     license |-> IF rich THEN "MIT" ELSE Undefined,
     homepage |-> IF rich THEN "https://acme.example/foo" ELSE Undefined,
     repository |-> IF rich
                    THEN [kind |-> "object", value |-> "https://git.example/foo"]
                    ELSE [kind |-> "undefined", value |-> Undefined]]

Descriptors ==
    {Descriptor(n, p, v, d, a, r) :
        n \in {Undefined, "foo"}, p \in {Undefined, "acme"},
        v \in {<<>>, V_1_2_3}, d \in {Undefined, "", "Foo Tools"},
        a \in Authors, r \in BOOLEAN}

\* packageJson: null or a descriptor
PackageJsons == {<<>>} \cup {<<d>> : d \in Descriptors}

IdentityTags ==
    {<<>>} \cup
    {<<[Id |-> i, Version |-> v, Publisher |-> p, Language |-> l]>> :
        i \in {"", "bar"}, v \in {<<>>, V_2_0_0},
        p \in {"", "contoso"}, l \in {"", "de-DE"}}

\* a manifest text; a rich one carries every optional element
ManifestText(identity, displayName, rich) ==
    [Identity |-> identity,
     DisplayName |-> displayName,
     Description |-> IF rich THEN "manifest description" ELSE "",
     Categories |-> IF rich THEN <<"Themes", "Linters">> ELSE <<>>,
     Tags |-> IF rich THEN <<"tag1", "tag2">> ELSE <<>>,
     GalleryFlags |-> IF rich THEN <<"Public", "Preview">> ELSE <<>>,
     Properties |-> IF rich
                    THEN <<[Id |-> EngineKey, Value |-> "^1.75.0"],
                           [Id |-> SourceKey, Value |-> "https://git.example/bar"],
                           [Id |-> GetstartedKey, Value |-> "https://contoso.example/bar"],
                           [Id |-> LicenseKey, Value |-> "extension/LICENSE.txt"]>>
                    ELSE <<>>,
     InstallationTargets |-> IF rich
                             THEN <<[Id |-> "Microsoft.VisualStudio.Code", Version |-> "[1.75,)"],
                                    [Id |-> "Microsoft.VisualStudio.Code.Web", Version |-> "[1.75,)"]>>
                             ELSE <<>>,
     Assets |-> IF rich
                THEN <<[Type |-> "Microsoft.VisualStudio.Code.Manifest",
                        Path |-> "extension/package.json", Addressable |-> "true"],
                       [Type |-> "Microsoft.VisualStudio.Services.Icons.Default",
                        Path |-> "extension/images/icon.png", Addressable |-> "true"]>>
                ELSE <<>>]

\* the manifest entry: none, or a manifest text
ManifestTexts ==
    {<<>>} \cup
    {<<ManifestText(i, d, r)>> :
        i \in IdentityTags, d \in {"", "Bar Tools"}, r \in BOOLEAN}

\* what vscode.extensions.getExtension(id) answers: nothing, or an installed
\* extension of some version
InstalledVersions == {<<>>, <<V_1_2_3>>, <<V_2_0_0>>}

(***************************************************************************)
(* Specification of the reconciler: a manifest text and a descriptor are   *)
(* drawn, the manifest is decoded, and the record is built or validated.   *)
(***************************************************************************)
InitReconcile ==
    /\ pc = "extracted"
    /\ manifestXml \in ManifestTexts
    /\ packageJson \in PackageJsons
    /\ manifest = <<>>
    /\ extensionData = <<>>
    /\ extensionInfo = <<>>
    /\ validation = <<>>
    /\ VersionIdle
    /\ DedupIdle
    /\ ZipIdle
    /\ ScanIdle
    /\ ProviderIdle

\* extractManifest once the entry's text is at hand: null without an entry
ParseManifestXml ==
    /\ pc = "extracted"
    /\ manifest' = IF manifestXml = <<>> THEN <<>>
                   ELSE <<parseManifestXml(manifestXml[1])>>
    /\ pc' = "parsed"
    /\ UNCHANGED <<manifestXml, packageJson, extensionData, extensionInfo, validation>>
    /\ UNCHANGED <<versionVars, dedupVars, zipVars, scanVars, providerVars>>

ParseVsixFileComplete ==
    /\ pc = "parsed"
    /\ extensionData' = <<extractExtensionDataWithManifestPriority(manifest, packageJson)>>
    /\ \E installedVersion \in InstalledVersions :
          extensionInfo' = parseVsixFileComplete(manifest, packageJson, installedVersion)
    /\ pc' = "complete"
    /\ UNCHANGED <<manifestXml, packageJson, manifest, validation>>
    /\ UNCHANGED <<versionVars, dedupVars, zipVars, scanVars, providerVars>>

ValidateVsixFile ==
    /\ pc = "parsed"
    /\ extensionData' = <<extractExtensionDataWithManifestPriority(manifest, packageJson)>>
    /\ validation' = <<validateVsixFile(manifest, packageJson)>>
    /\ pc' = "validated"
    /\ UNCHANGED <<manifestXml, packageJson, manifest, extensionInfo>>
    /\ UNCHANGED <<versionVars, dedupVars, zipVars, scanVars, providerVars>>

NextReconcile == ParseManifestXml \/ ParseVsixFileComplete \/ ValidateVsixFile

SpecReconcile == InitReconcile /\ [][NextReconcile]_vars

(***************************************************************************)
(* The ZIP reader (VsixParser).  A buffer is a sequence of bytes; offsets   *)
(* count from 0 as in the code.  A call that returns yields ok = TRUE and   *)
(* its value, a call that throws yields ok = FALSE and the error's message. *)
(***************************************************************************)
Returned(v) == [ok |-> TRUE, value |-> v, error |-> ""]

Thrown(message) == [ok |-> FALSE, value |-> <<>>, error |-> message]

RangeError == "RangeError: out of range"

ByteAt(buf, offset) == buf[offset + 1]

\* a read of `width` bytes at `offset` lies inside the buffer; Buffer's
\* readUInt16LE and readUInt32LE throw a RangeError when it does not
InRange(buf, offset, width) == offset >= 0 /\ offset + width <= Len(buf)

\* Buffer.subarray(start, end): both ends are clamped to the buffer
Subarray(buf, start, end) ==
    LET s == Min(Max(start, 0), Len(buf))
        e == Min(Max(end, 0), Len(buf))
    IN  IF e <= s THEN <<>> ELSE SubSeq(buf, s + 1, e)

ReadUInt16LE(buf, offset) ==
    ByteAt(buf, offset) + 256 * ByteAt(buf, offset + 1)

\* Values of 2^30 and more are kept as 2^30: the code compares the value
\* with a signature below 2^30 or uses it as an offset or a size, and every
\* buffer here is far shorter than 2^30 bytes.
ReadUInt32LE(buf, offset) ==
    IF ByteAt(buf, offset + 3) >= 64 THEN 1073741824
    ELSE ByteAt(buf, offset) + 256 * ByteAt(buf, offset + 1)
         + 65536 * ByteAt(buf, offset + 2) + 16777216 * ByteAt(buf, offset + 3)

\* 0x06054b50
EocdSignature == 101010256

\* 0x02014b50
CentralSignature == 33639248

\* 0x04034b50
LocalSignature == 67324752

\* the offset the backward search starts at
EocdSearchStart_signature(buf) == Len(buf) - 4

EocdSearchStart(buf) == Len(buf) - 22

\* eocdOffset after the search: the greatest offset from the start offset
\* down to 0 that holds the signature, -1 when there is none
EocdOffset(buf) ==
    LET hits == {i \in 0..EocdSearchStart(buf) :
                    ReadUInt32LE(buf, i) = EocdSignature}
    IN  IF hits = {} THEN -1
        ELSE CHOOSE i \in hits : \A j \in hits : j <= i

\* the fields of a central directory entry that the reader uses afterwards;
\* fileName keeps the bytes of the name
parseCentralDirectoryEntry(buf, offset) ==
    IF ~InRange(buf, offset, 4) THEN Thrown(RangeError)
    ELSE IF ReadUInt32LE(buf, offset) # CentralSignature
    THEN Thrown("Invalid central directory signature")
    ELSE IF ~InRange(buf, offset, 46) THEN Thrown(RangeError)
    ELSE LET fileNameLength == ReadUInt16LE(buf, offset + 28)
         IN  Returned(
               [compressionMethod |-> ReadUInt16LE(buf, offset + 10),
                compressedSize |-> ReadUInt32LE(buf, offset + 20),
                uncompressedSize |-> ReadUInt32LE(buf, offset + 24),
                fileNameLength |-> fileNameLength,
                extraFieldLength |-> ReadUInt16LE(buf, offset + 30),
                fileCommentLength |-> ReadUInt16LE(buf, offset + 32),
                localHeaderOffset |-> ReadUInt32LE(buf, offset + 42),
                fileName |-> Subarray(buf, offset + 46,
                                      offset + 46 + fileNameLength)])

\* currentOffset advanced without the entry's comment
NextEntryOffset_noComment(currentOffset, entry) ==
    currentOffset + 46 + entry.fileNameLength + entry.extraFieldLength

\* currentOffset += 46 + the three lengths of the entry
NextEntryOffset(currentOffset, entry) ==
    currentOffset + 46 + entry.fileNameLength
        + entry.extraFieldLength + entry.fileCommentLength

\* the loop over totalEntries; a throw leaves the entries pushed so far
RECURSIVE CentralEntries(_, _, _, _)
CentralEntries(buf, currentOffset, remaining, entries) ==
    IF remaining = 0 THEN Returned(entries)
    ELSE LET r == parseCentralDirectoryEntry(buf, currentOffset)
         IN  IF ~r.ok THEN [ok |-> FALSE, value |-> entries, error |-> r.error]
             ELSE CentralEntries(buf, NextEntryOffset(currentOffset, r.value),
                                 remaining - 1, Append(entries, r.value))

\* the value is this.centralDirectory after the call, given its value before
parseCentralDirectory(buf, before) ==
    LET eocdOffset == EocdOffset(buf)
    IN  IF eocdOffset = -1
        THEN [ok |-> FALSE, value |-> before,
              error |-> "End of Central Directory not found"]
        ELSE IF ~InRange(buf, eocdOffset + 10, 2) \/ ~InRange(buf, eocdOffset + 12, 4)
                \/ ~InRange(buf, eocdOffset + 16, 4)
        THEN [ok |-> FALSE, value |-> before, error |-> RangeError]
        ELSE CentralEntries(buf, ReadUInt32LE(buf, eocdOffset + 16),
                            ReadUInt16LE(buf, eocdOffset + 10), <<>>)

parseLocalHeader(buf, offset) ==
    IF ~InRange(buf, offset, 4) THEN Thrown(RangeError)
    ELSE IF ReadUInt32LE(buf, offset) # LocalSignature
    THEN Thrown("Invalid local header signature")
    ELSE IF ~InRange(buf, offset, 30) THEN Thrown(RangeError)
    ELSE Returned([compressionMethod |-> ReadUInt16LE(buf, offset + 8),
                   fileNameLength |-> ReadUInt16LE(buf, offset + 26),
                   extraFieldLength |-> ReadUInt16LE(buf, offset + 28)])

\* zlib.inflateRaw.  The deflate streams of the archives here are one final
\* stored block: the byte 1, LEN, the complement of LEN, LEN bytes of data.
\* Their damaged forms (a reserved block type, a complement that does not
\* match, a stream cut short) are errors of zlib.
inflateData(compressedData) ==
    IF /\ Len(compressedData) >= 5
       /\ compressedData[1] = 1
       /\ ReadUInt16LE(compressedData, 3) = 65535 - ReadUInt16LE(compressedData, 1)
       /\ Len(compressedData) >= 5 + ReadUInt16LE(compressedData, 1)
    THEN Returned(SubSeq(compressedData, 6, 5 + ReadUInt16LE(compressedData, 1)))
    ELSE Thrown("zlib: invalid stream")

\* extractFile with the data offset computed from the central directory's
\* copy of the name and extra-field lengths
extractFile_centralLengths(buf, entry) ==
    LET localHeader == parseLocalHeader(buf, entry.localHeaderOffset)
    IN  IF ~localHeader.ok THEN localHeader
        ELSE LET dataOffset == entry.localHeaderOffset + 30
                                   + entry.fileNameLength
                                   + entry.extraFieldLength
                 compressedData == Subarray(buf, dataOffset,
                                            dataOffset + entry.compressedSize)
             IN  IF entry.compressionMethod = 0 THEN Returned(compressedData)
                 ELSE IF entry.compressionMethod = 8 THEN inflateData(compressedData)
                 ELSE Thrown("Unsupported compression method")

extractFile(buf, entry) ==
    LET localHeader == parseLocalHeader(buf, entry.localHeaderOffset)
    IN  IF ~localHeader.ok THEN localHeader
        ELSE LET dataOffset == entry.localHeaderOffset + 30
                                   + localHeader.value.fileNameLength
                                   + localHeader.value.extraFieldLength
                 compressedData == Subarray(buf, dataOffset,
                                            dataOffset + entry.compressedSize)
             IN  IF entry.compressionMethod = 0 THEN Returned(compressedData)
                 ELSE IF entry.compressionMethod = 8 THEN inflateData(compressedData)
                 ELSE Thrown("Unsupported compression method")

\* Array.prototype.find, given the positions of the entries that satisfy the
\* test: the first of them, <<>> for undefined
Find(entries, hits) ==
    IF hits = {} THEN <<>>
    ELSE <<entries[CHOOSE i \in hits : \A j \in hits : i <= j]>>

\* String.prototype.endsWith on the bytes of two names
EndsWith(name, suffix) ==
    /\ Len(name) >= Len(suffix)
    /\ SubSeq(name, Len(name) - Len(suffix) + 1, Len(name)) = suffix

\* 'extension/package.json'
ExtensionPackageJsonName ==
    <<101, 120, 116, 101, 110, 115, 105, 111, 110, 47,
      112, 97, 99, 107, 97, 103, 101, 46, 106, 115, 111, 110>>

\* 'package.json'
PackageJsonName == <<112, 97, 99, 107, 97, 103, 101, 46, 106, 115, 111, 110>>

\* 'extension.vsixmanifest'
VsixManifestName ==
    <<101, 120, 116, 101, 110, 115, 105, 111, 110, 46,
      118, 115, 105, 120, 109, 97, 110, 105, 102, 101, 115, 116>>

\* '[Content_Types].xml'
ContentTypesName ==
    <<91, 67, 111, 110, 116, 101, 110, 116, 95, 84, 121, 112, 101, 115, 93,
      46, 120, 109, 108>>

\* '.vsixmanifest'
VsixManifestSuffix ==
    <<46, 118, 115, 105, 120, 109, 97, 110, 105, 102, 101, 115, 116>>

IsPackageEntry(entry) ==
    entry.fileName = ExtensionPackageJsonName \/ entry.fileName = PackageJsonName

IsManifestEntry(entry) ==
    \/ entry.fileName = VsixManifestName
    \/ entry.fileName = ContentTypesName
    \/ EndsWith(entry.fileName, VsixManifestSuffix)

\* packageEntry of extractPackageJson
PackageEntry(entries) ==
    Find(entries, {i \in 1..Len(entries) : IsPackageEntry(entries[i])})

\* manifestEntry of extractManifest
ManifestEntry(entries) ==
    Find(entries, {i \in 1..Len(entries) : IsManifestEntry(entries[i])})

(***************************************************************************)
(* The texts of the documents.  "{}", "null" and "{" are what they are; the *)
(* three bytes "{d}" stand for the text of the descriptor ZipDescriptor,    *)
(* "<m>" for the text of the manifest ZipManifest and "<t>" for the text of *)
(* a content-types document, in which none of the parser's patterns match.  *)
(***************************************************************************)
EmptyObjectText == <<123, 125>>

NullText == <<110, 117, 108, 108>>

BrokenJsonText == <<123>>

DescriptorText == <<123, 100, 125>>

ManifestXmlText == <<60, 109, 62>>

ContentTypesText == <<60, 116, 62>>

\* descriptor texts with an icon property: 'icon.png', 'logo.png' and ''
IconDescriptorText == <<123, 105, 125>>

LogoDescriptorText == <<123, 108, 125>>

EmptyIconDescriptorText == <<123, 101, 125>>

\* manifest texts with Asset tags
IconManifestText == <<60, 105, 62>>

PathlessManifestText == <<60, 112, 62>>

IconsDefault == "Microsoft.VisualStudio.Services.Icons.Default"

IconsSmall == "Microsoft.VisualStudio.Services.Icons.Small"

ZipDescriptor ==
    Descriptor("foo", "acme", V_1_2_3, "Foo Tools",
               [kind |-> "string", value |-> "Ann Author"], FALSE)

ZipManifest ==
    ManifestText(<<[Id |-> "bar", Version |-> V_2_0_0,
                    Publisher |-> "contoso", Language |-> ""]>>,
                 "Bar Tools", FALSE)

\* a small icon asset before a default one, behind an asset of another type
IconManifest ==
    [ZipManifest EXCEPT !.Assets =
        <<[Type |-> "Microsoft.VisualStudio.Code.Manifest",
           Path |-> "extension/package.json", Addressable |-> "true"],
          [Type |-> IconsSmall, Path |-> "extension/logo.png", Addressable |-> "true"],
          [Type |-> IconsDefault, Path |-> "extension/icon.png", Addressable |-> "true"]>>]

\* a default icon asset without a Path attribute before a small one with a
\* Path
PathlessManifest ==
    [ZipManifest EXCEPT !.Assets =
        <<[Type |-> IconsDefault, Path |-> "", Addressable |-> Undefined],
          [Type |-> IconsSmall, Path |-> "extension/icon.png", Addressable |-> "true"]>>]

\* JSON.parse of a buffer's text: the decoded descriptor, <<>> for null
JSONparse(text) ==
    IF text = DescriptorText THEN Returned(<<ZipDescriptor>>)
    ELSE IF text = IconDescriptorText
    THEN Returned(<<[ZipDescriptor EXCEPT !.icon = "icon.png"]>>)
    ELSE IF text = LogoDescriptorText
    THEN Returned(<<[ZipDescriptor EXCEPT !.icon = "logo.png"]>>)
    ELSE IF text = EmptyIconDescriptorText
    THEN Returned(<<[ZipDescriptor EXCEPT !.icon = ""]>>)
    ELSE IF text = EmptyObjectText
    THEN Returned(<<Descriptor(Undefined, Undefined, <<>>, Undefined,
                               [kind |-> "undefined", value |-> Undefined], FALSE)>>)
    ELSE IF text = NullText THEN Returned(<<>>)
    ELSE Thrown("SyntaxError")

\* what the patterns of parseManifestXml see in a text
XmlOf(text) ==
    IF text = ManifestXmlText THEN ZipManifest
    ELSE IF text = IconManifestText THEN IconManifest
    ELSE IF text = PathlessManifestText THEN PathlessManifest
    ELSE ManifestText(<<>>, "", FALSE)

\* null when there is no entry, when extractFile throws and when JSON.parse
\* throws
extractPackageJson(buf, entries) ==
    LET packageEntry == PackageEntry(entries)
    IN  IF packageEntry = <<>> THEN <<>>
        ELSE LET packageBuffer == extractFile(buf, packageEntry[1])
             IN  IF ~packageBuffer.ok THEN <<>>
                 ELSE IF ~JSONparse(packageBuffer.value).ok THEN <<>>
                 ELSE JSONparse(packageBuffer.value).value

\* null when there is no entry and when extractFile throws
extractManifest(buf, entries) ==
    LET manifestEntry == ManifestEntry(entries)
    IN  IF manifestEntry = <<>> THEN <<>>
        ELSE LET manifestBuffer == extractFile(buf, manifestEntry[1])
             IN  IF ~manifestBuffer.ok THEN <<>>
                 ELSE <<parseManifestXml(XmlOf(manifestBuffer.value))>>

\* 'extension/'
ExtensionPrefix == <<101, 120, 116, 101, 110, 115, 105, 111, 110, 47>>

\* the test of extractIcon's find without the prefixed name
IsIconEntry_exact(entry, path) == entry.fileName = path

IsIconEntry(entry, path) ==
    entry.fileName = path \/ entry.fileName = ExtensionPrefix \o path

\* iconEntry of extractIcon
IconEntry(entries, path) ==
    Find(entries, {i \in 1..Len(entries) : IsIconEntry(entries[i], path)})

\* null when there is no entry and when extractFile throws
extractIcon(buf, entries, path) ==
    LET entry == IconEntry(entries, path)
    IN  IF entry = <<>> THEN <<>>
        ELSE LET r == extractFile(buf, entry[1])
             IN  IF r.ok THEN <<r.value>> ELSE <<>>

(***************************************************************************)
(* The files the reader is applied to: archives laid out as the reader      *)
(* reads them (local records, central directory, end record), their damaged *)
(* forms, and buffers that hold no archive at all.                          *)
(***************************************************************************)
MaxEntries == 2

U16(n) == <<n % 256, n \div 256>>

U32(n) == <<n % 256, (n \div 256) % 256, (n \div 65536) % 256, n \div 16777216>>

\* one final stored block holding the text
StoredBlock(text) == <<1>> \o U16(Len(text)) \o U16(65535 - Len(text)) \o text

\* an archive member: stored, deflated, of an unsupported method, or with a
\* local header whose signature is damaged
FileEntry(name, kind, text) ==
    [fileName |-> name,
     compressionMethod |-> IF kind = "deflated" THEN 8
                           ELSE IF kind = "unsupported" THEN 12 ELSE 0,
     localSignature |-> IF kind = "damaged" THEN 0 ELSE LocalSignature,
     size |-> Len(text),
     localExtra |-> <<>>,
     centralExtra |-> <<>>,
     fileComment |-> <<>>,
     data |-> IF kind = "deflated" THEN StoredBlock(text) ELSE text]

\* an extended-timestamp extra field ('UT', 5 bytes: flags and a time)
TimestampExtra == <<85, 84, 5, 0, 1, 0, 0, 0, 0>>

\* the member with extra fields in its local header and in its central
\* directory entry; the two need not be the same
WithExtra(f, localExtra, centralExtra) ==
    [f EXCEPT !.localExtra = localExtra, !.centralExtra = centralExtra]

\* the member with a comment in its central directory entry
WithComment(f, fileComment) == [f EXCEPT !.fileComment = fileComment]

\* signature, version, flags, method, time, date, crc, sizes, name length,
\* extra length, name, extra field, data
LocalRecord(f) ==
    U32(f.localSignature) \o U16(20) \o U16(0) \o U16(f.compressionMethod)
    \o U16(0) \o U16(0) \o U32(0) \o U32(Len(f.data)) \o U32(f.size)
    \o U16(Len(f.fileName)) \o U16(Len(f.localExtra)) \o f.fileName
    \o f.localExtra \o f.data

RECURSIVE LocalRecords(_)
LocalRecords(files) ==
    IF files = <<>> THEN <<>>
    ELSE LocalRecord(Head(files)) \o LocalRecords(Tail(files))

\* signature, versions, flags, method, time, date, crc, sizes, name, extra
\* and comment lengths, disk, attributes, local header offset, name, extra
\* field, comment
CentralRecord(f, localHeaderOffset) ==
    U32(CentralSignature) \o U16(20) \o U16(20) \o U16(0)
    \o U16(f.compressionMethod) \o U16(0) \o U16(0) \o U32(0)
    \o U32(Len(f.data)) \o U32(f.size) \o U16(Len(f.fileName))
    \o U16(Len(f.centralExtra)) \o U16(Len(f.fileComment)) \o U16(0)
    \o U16(0) \o U32(0) \o U32(localHeaderOffset) \o f.fileName
    \o f.centralExtra \o f.fileComment

RECURSIVE CentralRecords(_, _)
CentralRecords(files, k) ==
    IF k > Len(files) THEN <<>>
    ELSE CentralRecord(files[k], Len(LocalRecords(SubSeq(files, 1, k - 1))))
         \o CentralRecords(files, k + 1)

\* signature, disks, entry counts, directory size and offset, comment
EndRecord(totalEntries, centralDirSize, centralDirOffset, comment) ==
    U32(EocdSignature) \o U16(0) \o U16(0) \o U16(totalEntries)
    \o U16(totalEntries) \o U32(centralDirSize) \o U32(centralDirOffset)
    \o U16(Len(comment)) \o comment

\* an archive whose end record announces `extra` entries more than it has
Archive(files, extra, comment) ==
    LET locals == LocalRecords(files)
        central == CentralRecords(files, 1)
    IN  locals \o central
        \o EndRecord(Len(files) + extra, Len(central), Len(locals), comment)

\* the buffer without its last n bytes
CutShort(buf, n) == SubSeq(buf, 1, Len(buf) - n)

ZipEntries ==
    {FileEntry(n, k, DescriptorText) :
        n \in {ExtensionPackageJsonName, PackageJsonName},
        k \in {"stored", "deflated", "unsupported", "damaged"}}
    \cup {FileEntry(ExtensionPackageJsonName, "stored", BrokenJsonText)}
    \cup {FileEntry(VsixManifestName, k, ManifestXmlText) :
            k \in {"stored", "deflated", "unsupported", "damaged"}}
    \cup {FileEntry(ContentTypesName, "stored", ContentTypesText)}
    \cup {FileEntry(<<101, 120, 116, 101, 110, 115, 105, 111, 110, 47>>,
                    "stored", <<>>)}

RECURSIVE EntryLists(_)
EntryLists(n) ==
    IF n = 0 THEN {<<>>}
    ELSE EntryLists(n - 1) \cup
         {Append(l, f) : l \in {x \in EntryLists(n - 1) : Len(x) = n - 1},
                         f \in ZipEntries}

\* an archive as written, with a trailing comment, announcing one entry too
\* many, and cut short by one byte and by its whole end record
ArchiveForms(files) ==
    {Archive(files, 0, <<>>),
     Archive(files, 0, <<0, 0>>),
     Archive(files, 1, <<>>),
     CutShort(Archive(files, 0, <<>>), 1),
     CutShort(Archive(files, 0, <<>>), 22)}

Zeros(n) == [i \in 1..n |-> 0]

\* archives whose members carry extra fields: in the local header only, in
\* the central directory only, and in both
ExtraFieldLists ==
    {<<WithExtra(FileEntry(ExtensionPackageJsonName, k, DescriptorText), l, c),
       WithExtra(FileEntry(VsixManifestName, "stored", ManifestXmlText), c, l)>> :
        k \in {"stored", "deflated", "unsupported"},
        l \in {<<>>, TimestampExtra},
        c \in {<<>>, TimestampExtra}}

\* 'icon.png'
IconName == <<105, 99, 111, 110, 46, 112, 110, 103>>

\* 'logo.png'
LogoName == <<108, 111, 103, 111, 46, 112, 110, 103>>

\* the first bytes of two images
ImageA == <<137, 80, 78, 71, 65>>

ImageB == <<137, 80, 78, 71, 66>>

\* archives with an icon at the root, below extension/, at both places in
\* either order, and with an icon that cannot be extracted
IconLists ==
    {<<a, b>> :
        a, b \in {FileEntry(IconName, "stored", ImageA),
                  FileEntry(ExtensionPrefix \o IconName, "deflated", ImageB),
                  FileEntry(ExtensionPrefix \o IconName, "damaged", ImageB),
                  FileEntry(ExtensionPackageJsonName, "stored", DescriptorText)}}

\* the paths extractIcon is called with
IconPaths ==
    {IconName, ExtensionPrefix \o IconName, LogoName, PackageJsonName}

\* archives whose members carry a comment: 'ok', or bytes that read as a
\* central directory record
CommentLists ==
    {<<WithComment(FileEntry(PackageJsonName, "stored", DescriptorText), c1),
       WithComment(FileEntry(VsixManifestName, "deflated", ManifestXmlText), c2),
       FileEntry(ContentTypesName, "stored", ContentTypesText)>> :
        c1 \in {<<>>, <<111, 107>>,
                CentralRecord(FileEntry(ContentTypesName, "stored", <<>>), 0)},
        c2 \in {<<>>, <<111, 107>>}}

\* the file at filePath: missing (<<>>), or its bytes
VsixFiles ==
    {<<>>}
    \cup {<<Zeros(n)>> : n \in {0, 4, 21, 22, 40}}
    \cup {<<b>> : b \in UNION {ArchiveForms(files) : files \in EntryLists(MaxEntries)}}
    \cup {<<Archive(files, 0, <<>>)>> :
            files \in ExtraFieldLists \cup CommentLists \cup IconLists}

(***************************************************************************)
(* Specification of the reader: VsixParser.parse on a file, one step for    *)
(* each call it awaits.                                                     *)
(***************************************************************************)
InitZip ==
    /\ pc = "start"
    /\ vsixFile \in VsixFiles
    /\ fileBuffer = <<>>
    /\ centralDirectory = <<>>
    /\ parseError = ""
    /\ extracted = <<>>
    /\ readme = <<>>
    /\ changelog = <<>>
    /\ iconPath = <<>>
    /\ iconEntry = <<>>
    /\ iconBuffer = <<>>
    /\ iconSource = <<>>
    /\ VersionIdle
    /\ DedupIdle
    /\ ReconcileIdle
    /\ ScanIdle
    /\ ProviderIdle

\* stat and readFile: both throw when the file is missing
ReadFile ==
    /\ pc = "start"
    /\ IF vsixFile = <<>>
       THEN /\ pc' = "failed"
            /\ parseError' = "ENOENT"
            /\ UNCHANGED fileBuffer
       ELSE /\ pc' = "loaded"
            /\ fileBuffer' = vsixFile
            /\ UNCHANGED parseError
    /\ UNCHANGED <<vsixFile, centralDirectory, extracted, iconVars, docVars>>
    /\ UNCHANGED <<versionVars, dedupVars, reconcileVars, scanVars, providerVars>>

ParseCentralDirectory ==
    /\ pc = "loaded"
    /\ LET r == parseCentralDirectory(fileBuffer[1], centralDirectory)
       IN  /\ centralDirectory' = r.value
           /\ parseError' = r.error
           /\ pc' = IF r.ok THEN "indexed" ELSE "failed"
    /\ UNCHANGED <<vsixFile, fileBuffer, extracted, iconVars, docVars>>
    /\ UNCHANGED <<versionVars, dedupVars, reconcileVars, scanVars, providerVars>>

ExtractPackageJson ==
    /\ pc = "indexed"
    /\ packageJson' = extractPackageJson(fileBuffer[1], centralDirectory)
    /\ pc' = "descriptor"
    /\ UNCHANGED <<manifestXml, manifest, extensionData, extensionInfo, validation>>
    /\ UNCHANGED <<versionVars, dedupVars, zipVars, scanVars, providerVars>>

\* the last call of parse, which then returns packageJson and manifest
ExtractManifest ==
    /\ pc = "descriptor"
    /\ manifest' = extractManifest(fileBuffer[1], centralDirectory)
    /\ pc' = "returned"
    /\ UNCHANGED <<manifestXml, packageJson, extensionData, extensionInfo, validation>>
    /\ UNCHANGED <<versionVars, dedupVars, zipVars, scanVars, providerVars>>

\* extractFile on an entry of the central directory
ExtractFile ==
    /\ pc = "indexed"
    /\ \E k \in 1..Len(centralDirectory) :
          extracted' = <<[entry |-> k,
                          result |-> extractFile(fileBuffer[1], centralDirectory[k])]>>
    /\ pc' = "extracted"
    /\ UNCHANGED <<vsixFile, fileBuffer, centralDirectory, parseError, iconVars, docVars>>
    /\ UNCHANGED <<versionVars, dedupVars, reconcileVars, scanVars, providerVars>>

\* extractIcon(path) on a parser whose parse() has returned; the central
\* directory is read again when it holds no entry
ExtractIcon ==
    /\ pc = "returned"
    /\ \E path \in IconPaths :
          LET r == IF Len(centralDirectory) = 0
                   THEN parseCentralDirectory(fileBuffer[1], centralDirectory)
                   ELSE Returned(centralDirectory)
          IN  /\ centralDirectory' = r.value
              /\ parseError' = r.error
              /\ iconPath' = path
              /\ iconEntry' = IF r.ok THEN IconEntry(r.value, path) ELSE <<>>
              /\ iconBuffer' = IF r.ok THEN extractIcon(fileBuffer[1], r.value, path)
                               ELSE <<>>
              /\ pc' = IF r.ok THEN "icon" ELSE "failed"
    /\ UNCHANGED <<vsixFile, fileBuffer, extracted, iconSource, docVars>>
    /\ UNCHANGED <<versionVars, dedupVars, reconcileVars, scanVars, providerVars>>

NextZip ==
    \/ ReadFile
    \/ ParseCentralDirectory
    \/ ExtractPackageJson
    \/ ExtractManifest
    \/ ExtractFile
    \/ ExtractIcon

SpecZip == InitZip /\ [][NextZip]_vars

(***************************************************************************)
(* The scan (StorageProvider.getAllExtensions).  A configured directory is  *)
(* inaccessible (fs.accessSync throws), unreadable (readdir throws) or      *)
(* listed.  A file has an extension name and, when it is an archive, what   *)
(* parsing it comes to: the file cannot be read, the archive is malformed,  *)
(* the metadata lacks a required field, or a record results.  The path of a *)
(* file is the pair of its directory's path and its position in the         *)
(* listing.                                                                 *)
(***************************************************************************)
MaxFiles == 2

ScanFile(extname, content, id, version) ==
    [extname |-> extname, content |-> content, id |-> id, version |-> version]

ScanFiles ==
    {ScanFile(".txt", "record", "acme.foo", <<"1", ".", "0", ".", "0">>),
     ScanFile(".vsix", "unreadable", "", <<>>),
     ScanFile(".vsix", "malformed", "", <<>>),
     ScanFile(".vsix", "incomplete", "", <<>>),
     ScanFile(".vsix", "record", "acme.foo", <<"1", ".", "0", ".", "0">>),
     ScanFile(".VSIX", "record", "acme.foo", <<"1", ".", "1", ".", "0">>),
     ScanFile(".vsix", "record", "acme.bar", <<"1", ".", "0", ".", "0">>)}

RECURSIVE FileLists(_)
FileLists(n) ==
    IF n = 0 THEN {<<>>}
    ELSE FileLists(n - 1) \cup
         {Append(l, f) : l \in {x \in FileLists(n - 1) : Len(x) = n - 1},
                         f \in ScanFiles}

\* the directory at a path; only a listed directory shows its files
Directory(path, kind, files) ==
    [path |-> path, kind |-> kind,
     files |-> IF kind = "listed" THEN files ELSE <<>>]

DirectoryKinds == {"inaccessible", "unreadable", "listed"}

\* the vsixDirectories setting: no directory, one directory, or two
\* directories that share the files of a list between them
Configurations ==
    {<<>>}
    \cup {<<Directory("/a", k, l)>> : k \in DirectoryKinds, l \in FileLists(MaxFiles)}
    \cup UNION {{<<Directory("/a", ka, SubSeq(l, 1, j)),
                    Directory("/b", kb, SubSeq(l, j + 1, Len(l)))>> :
                     j \in 0..Len(l), ka \in DirectoryKinds, kb \in DirectoryKinds} :
                 l \in FileLists(MaxFiles)}

\* what vscode.extensions.getExtension(id) answers for each id
InstalledExtensions ==
    {[id \in {"acme.foo", "acme.bar"} |-> <<>>],
     [id \in {"acme.foo", "acme.bar"} |->
         IF id = "acme.foo" THEN <<<<"1", ".", "0", ".", "0">>>> ELSE <<>>],
     [id \in {"acme.foo", "acme.bar"} |-> <<<<"1", ".", "1", ".", "0">>>>]}

\* the filter of getConfiguredDirectories
getConfiguredDirectories(setting) ==
    SelectSeq(setting, LAMBDA d : d.kind # "inaccessible")

\* String.prototype.toLowerCase on the extension names of the files
ToLowerCase(extname) == IF extname = ".VSIX" THEN ".vsix" ELSE extname

\* parseVsixFileComplete(filePath) as the scan sees it: null when parse()
\* throws and when a required field is missing, else the record
ScanRecord(file, filePath, installed) ==
    IF file.content # "record" THEN <<>>
    ELSE <<[id |-> file.id, version |-> file.version, filePath |-> filePath]
            @@ InstallationStatus(file, installed[file.id])>>

\* the loop of scanDirectory over the listing, from the k-th file on
RECURSIVE ScanFilesFrom(_, _, _, _)
ScanFilesFrom(dir, k, installed, exts) ==
    IF k > Len(dir.files) THEN exts
    ELSE IF ToLowerCase(dir.files[k].extname) # ".vsix"
    THEN ScanFilesFrom(dir, k + 1, installed, exts)
    ELSE ScanFilesFrom(dir, k + 1, installed,
                       exts \o ScanRecord(dir.files[k], <<dir.path, k>>, installed))

\* readdir throws on an unreadable directory and scanDirectory throws it on
scanDirectory(dir, installed) ==
    IF dir.kind = "unreadable" THEN Thrown("readdir failed")
    ELSE Returned(ScanFilesFrom(dir, 1, installed, <<>>))

\* the loop of getAllExtensions left at the first directory that fails
NextDirectory_untilFailure(position, total, ok) ==
    IF ok THEN position + 1 ELSE total

\* the position of the for loop of getAllExtensions after a directory
NextDirectory(position, total, ok) == position + 1

updateInstallationStatus(exts, installed) ==
    [i \in 1..Len(exts) |->
        [id |-> exts[i].id, version |-> exts[i].version,
         filePath |-> exts[i].filePath]
        @@ InstallationStatus(exts[i], installed[exts[i].id])]

(***************************************************************************)
(* Specification of the scan: getAllExtensions on a configuration, one step *)
(* for each directory.                                                      *)
(***************************************************************************)
InitScan ==
    /\ pc = "configured"
    /\ configured \in Configurations
    /\ directories = <<>>
    /\ scanned = 0
    /\ warnings = <<>>
    /\ VersionIdle
    /\ DedupIdle
    /\ ReconcileIdle
    /\ ZipIdle
    /\ ProviderIdle

\* getAllExtensions up to its loop; it returns at once without directories
GetAllExtensions ==
    /\ pc = "configured"
    /\ directories' = getConfiguredDirectories(configured)
    /\ pc' = IF Len(getConfiguredDirectories(configured)) = 0
             THEN "listed" ELSE "scanning"
    /\ UNCHANGED <<configured, scanned, warnings>>
    /\ UNCHANGED <<versionVars, dedupVars, reconcileVars, zipVars, providerVars>>

\* one turn of the loop: scanDirectory, and the warning when it throws
ScanDirectory ==
    /\ pc = "scanning"
    /\ scanned < Len(directories)
    /\ \E installed \in InstalledExtensions :
          LET r == scanDirectory(directories[scanned + 1], installed)
          IN  /\ extensions' = IF r.ok THEN extensions \o r.value ELSE extensions
              /\ warnings' = IF r.ok THEN warnings
                             ELSE Append(warnings, directories[scanned + 1].path)
              /\ scanned' = NextDirectory(scanned, Len(directories), r.ok)
    /\ UNCHANGED <<pc, configured, directories, uniqueExtensions>>
    /\ UNCHANGED <<versionVars, reconcileVars, zipVars, providerVars>>

\* after the loop: deduplicateExtensions, updateInstallationStatus, return
ReturnExtensions ==
    /\ pc = "scanning"
    /\ scanned = Len(directories)
    /\ \E installed \in InstalledExtensions :
          uniqueExtensions' =
              updateInstallationStatus(deduplicateExtensions(extensions), installed)
    /\ pc' = "listed"
    /\ UNCHANGED <<configured, directories, scanned, warnings, extensions>>
    /\ UNCHANGED <<versionVars, reconcileVars, zipVars, providerVars>>

NextScan == GetAllExtensions \/ ScanDirectory \/ ReturnExtensions

SpecScan == InitScan /\ [][NextScan]_vars

(***************************************************************************)
(* Specification of the merge alone: extractExtensionDataWithManifestPriority *)
(* is applied to a manifest representation and a descriptor drawn freely,  *)
(* the representation with any property bag.                               *)
(***************************************************************************)
\* a Property element for a key: none, one with a value, one without
PropertyChoices(key, value) ==
    {<<>>, <<[Id |-> key, Value |-> value]>>, <<[Id |-> key, Value |-> ""]>>}

\* the property bags: at most one Property for each well-known key, behind a
\* Property of another key
PropertyBags ==
    {<<[Id |-> "Microsoft.VisualStudio.Code.ExtensionKind", Value |-> "workspace"]>>
        \o e \o r \o h \o l :
        e \in PropertyChoices(EngineKey, "^1.75.0"),
        r \in PropertyChoices(SourceKey, "https://git.example/bar"),
        h \in PropertyChoices(GetstartedKey, "https://contoso.example/bar"),
        l \in PropertyChoices(LicenseKey, "extension/LICENSE.txt")}

\* a manifest representation with identity contoso.bar 2.0.0
Representation(properties, categories) ==
    [Metadata |-> <<[Identity |-> <<[Id |-> "bar", Version |-> V_2_0_0,
                                     Publisher |-> "contoso", Language |-> "en-US"]>>,
                     DisplayName |-> <<"Bar Tools">>,
                     Description |-> <<>>,
                     Categories |-> categories,
                     Tags |-> <<>>,
                     GalleryFlags |-> <<>>,
                     Properties |-> properties]>>,
     Installation |-> <<>>,
     Assets |-> <<>>]

\* manifest: null, or a representation without or with a property bag
Representations ==
    {<<>>} \cup
    {<<Representation(properties, categories)>> :
        properties \in {<<>>} \cup {<<bag>> : bag \in PropertyBags},
        categories \in {<<>>, <<<<"Themes", "Linters">>>>}}

\* the descriptor acme.foo 1.2.3 with the given links, categories and engines
LinkedDescriptor(repository, homepage, license, categories, engines) ==
    [Descriptor("foo", "acme", V_1_2_3, Undefined,
                [kind |-> "undefined", value |-> Undefined], FALSE)
        EXCEPT !.repository = repository, !.homepage = homepage,
               !.license = license, !.categories = categories,
               !.engines = engines]

\* packageJson: null, or a descriptor; the repository is missing, a string,
\* an object with a url or an object without one, the categories are
\* missing, an empty array or an array of one
LinkedDescriptors ==
    {<<>>} \cup
    {<<LinkedDescriptor(r, h, l, c, e)>> :
        r \in {[kind |-> "undefined", value |-> Undefined],
               [kind |-> "string", value |-> "https://git.example/foo"],
               [kind |-> "object", value |-> "https://git.example/foo.git"],
               [kind |-> "object", value |-> Undefined]},
        h \in {Undefined, "https://acme.example/foo"},
        l \in {Undefined, "MIT"},
        c \in {<<>>, <<<<>>>>, <<<<"Other">>>>},
        e \in {Undefined, "^1.80.0"}}

InitMerge ==
    /\ pc = "given"
    /\ manifestXml = <<>>
    /\ manifest \in Representations
    /\ packageJson \in LinkedDescriptors
    /\ extensionData = <<>>
    /\ extensionInfo = <<>>
    /\ validation = <<>>
    /\ VersionIdle
    /\ DedupIdle
    /\ ZipIdle
    /\ ScanIdle
    /\ ProviderIdle

ExtractExtensionData ==
    /\ pc = "given"
    /\ extensionData' = <<extractExtensionDataWithManifestPriority(manifest, packageJson)>>
    /\ pc' = "merged"
    /\ UNCHANGED <<manifestXml, packageJson, manifest, extensionInfo, validation>>
    /\ UNCHANGED <<versionVars, dedupVars, zipVars, scanVars, providerVars>>

NextMerge == ExtractExtensionData

SpecMerge == InitMerge /\ [][NextMerge]_vars

(***************************************************************************)
(* StorageProvider.parseVsixFileComplete on a file: VsixParser.parse, then *)
(* the icon and the record.  Paths are strings in the documents and bytes  *)
(* in the archive; Utf8 is the encoding of the paths that occur.           *)
(***************************************************************************)
Utf8(path) ==
    CASE path = "icon.png" -> IconName
      [] path = "logo.png" -> LogoName
      [] path = "extension/icon.png" -> ExtensionPrefix \o IconName
      [] path = "extension/logo.png" -> ExtensionPrefix \o LogoName

\* path.extname of the paths that occur
ExtName(path) ==
    CASE path \in {"icon.png", "logo.png", "extension/icon.png", "extension/logo.png"}
            -> ".png"

getMimeTypeFromExtension(ext) ==
    CASE ext = ".png" -> "image/png"
      [] ext \in {".jpg", ".jpeg"} -> "image/jpeg"
      [] ext = ".gif" -> "image/gif"
      [] ext = ".svg" -> "image/svg+xml"
      [] ext = ".webp" -> "image/webp"
      [] ext = ".bmp" -> "image/bmp"
      [] ext = ".ico" -> "image/x-icon"
      [] OTHER -> "application/octet-stream"

\* the Path of the first asset of an icon type, undefined without assets or
\* without such an asset
extractIconFromManifest(m) ==
    IF m = <<>> \/ Len(m[1].Assets) = 0 THEN Undefined
    ELSE LET assets == m[1].Assets[1].Asset
             hits == {i \in 1..Len(assets) : assets[i].Type \in {IconsDefault, IconsSmall}}
         IN  IF hits = {} THEN Undefined
             ELSE assets[CHOOSE i \in hits : \A j \in hits : i <= j].Path

\* mutant: the manifest's icon asset is preferred to the descriptor's icon
IconSource_manifestFirst(p, m) ==
    Or(extractIconFromManifest(m), IF p = <<>> THEN Undefined ELSE p[1].icon)

\* packageJson?.icon || this.extractIconFromManifest(manifest)
IconSource(p, m) ==
    Or(IF p = <<>> THEN Undefined ELSE p[1].icon, extractIconFromManifest(m))

\* the data URI of an icon, kept as its MIME type and the encoded bytes
DataUri(source, buffer) ==
    [mimeType |-> getMimeTypeFromExtension(ExtName(source)), base64 |-> buffer]

\* a member of an icon archive: none, or one of the given kind
Member(name, kinds, text) ==
    {<<>>} \cup {<<FileEntry(name, kind, text)>> : kind \in kinds}

\* archives with or without a descriptor, a manifest, an icon.png at the
\* root or below extension/ and a logo.png below extension/
IconArchives ==
    {Archive(d \o m \o i \o l, 0, <<>>) :
        d \in UNION {Member(ExtensionPackageJsonName, {"stored"}, t) :
                        t \in {DescriptorText, IconDescriptorText,
                               LogoDescriptorText, EmptyIconDescriptorText}},
        m \in UNION {Member(VsixManifestName, {"deflated"}, t) :
                        t \in {ManifestXmlText, IconManifestText, PathlessManifestText}},
        i \in Member(IconName, {"stored", "damaged"}, ImageA)
                  \cup Member(ExtensionPrefix \o IconName,
                              {"deflated", "unsupported"}, ImageB),
        l \in Member(ExtensionPrefix \o LogoName, {"stored"}, ImageB)}

InitIcon ==
    /\ pc = "start"
    /\ vsixFile \in {<<>>, <<Zeros(22)>>} \cup {<<b>> : b \in IconArchives}
    /\ fileBuffer = <<>>
    /\ centralDirectory = <<>>
    /\ parseError = ""
    /\ extracted = <<>>
    /\ readme = <<>>
    /\ changelog = <<>>
    /\ iconPath = <<>>
    /\ iconEntry = <<>>
    /\ iconBuffer = <<>>
    /\ iconSource = <<>>
    /\ VersionIdle
    /\ DedupIdle
    /\ ReconcileIdle
    /\ ScanIdle
    /\ ProviderIdle

\* parser.parse(): an error of stat, readFile or parseCentralDirectory
\* leaves parseVsixFileComplete through its catch, which returns null
Parse ==
    /\ pc = "start"
    /\ IF vsixFile = <<>>
       THEN /\ pc' = "failed"
            /\ parseError' = "ENOENT"
            /\ UNCHANGED <<fileBuffer, centralDirectory, packageJson, manifest>>
       ELSE LET r == parseCentralDirectory(vsixFile[1], centralDirectory)
            IN  /\ fileBuffer' = vsixFile
                /\ centralDirectory' = r.value
                /\ parseError' = r.error
                /\ packageJson' = IF r.ok THEN extractPackageJson(vsixFile[1], r.value)
                                  ELSE <<>>
                /\ manifest' = IF r.ok THEN extractManifest(vsixFile[1], r.value)
                               ELSE <<>>
                /\ pc' = IF r.ok THEN "returned" ELSE "failed"
    /\ UNCHANGED <<vsixFile, extracted, iconVars, docVars>>
    /\ UNCHANGED <<manifestXml, extensionData, extensionInfo, validation>>
    /\ UNCHANGED <<versionVars, dedupVars, scanVars, providerVars>>

\* the rest of parseVsixFileComplete: the icon is extracted when iconSource
\* is truthy, inside a try/catch of its own, and the record is built from
\* the merged data, or null returned when a required field is missing
CompleteRecord ==
    /\ pc = "returned"
    /\ LET source == IconSource(packageJson, manifest)
           called == Truthy(source)
           r == IF Len(centralDirectory) = 0
                THEN parseCentralDirectory(fileBuffer[1], centralDirectory)
                ELSE Returned(centralDirectory)
           buffer == IF called /\ r.ok
                     THEN extractIcon(fileBuffer[1], r.value, Utf8(source))
                     ELSE <<>>
           icon == IF buffer # <<>> THEN <<DataUri(source, buffer[1])>> ELSE <<>>
           data == extractExtensionDataWithManifestPriority(manifest, packageJson)
       IN  /\ iconSource' = IF called THEN <<source>> ELSE <<>>
           /\ iconPath' = IF called THEN Utf8(source) ELSE <<>>
           /\ iconEntry' = IF called /\ r.ok THEN IconEntry(r.value, Utf8(source))
                           ELSE <<>>
           /\ iconBuffer' = buffer
           /\ centralDirectory' = IF called THEN r.value ELSE centralDirectory
           /\ extensionData' = <<data>>
           /\ \E installedVersion \in InstalledVersions :
                 LET record == parseVsixFileComplete(manifest, packageJson,
                                                     installedVersion)
                 IN  extensionInfo' =
                         IF record = <<>> THEN <<>>
                         ELSE <<record[1] @@ [icon |-> icon, iconBuffer |-> buffer]>>
    /\ pc' = "built"
    /\ UNCHANGED <<vsixFile, fileBuffer, parseError, extracted, docVars>>
    /\ UNCHANGED <<manifestXml, packageJson, manifest, validation>>
    /\ UNCHANGED <<versionVars, dedupVars, scanVars, providerVars>>

NextIcon == Parse \/ CompleteRecord

SpecIcon == InitIcon /\ [][NextIcon]_vars

(***************************************************************************)
(* VsixParser.extractReadme and extractChangelog on a parser whose parse() *)
(* has returned.                                                           *)
(***************************************************************************)
\* String.prototype.toLowerCase on the bytes of a name
LowerCase(name) ==
    [i \in 1..Len(name) |-> IF name[i] >= 65 /\ name[i] <= 90 THEN name[i] + 32
                            ELSE name[i]]

\* 'readme.md'
ReadmeName ==
    <<114, 101, 97, 100, 109, 101, 46, 109, 100>>

\* '/readme.md'
SlashReadmeName ==
    <<47, 114, 101, 97, 100, 109, 101, 46, 109, 100>>

\* 'extension/readme.md'
ExtensionReadmeName ==
    <<101, 120, 116, 101, 110, 115, 105, 111, 110, 47, 114, 101, 97, 100,
      109, 101, 46, 109, 100>>

\* 'changelog.md'
ChangelogName ==
    <<99, 104, 97, 110, 103, 101, 108, 111, 103, 46, 109, 100>>

\* '/changelog.md'
SlashChangelogName ==
    <<47, 99, 104, 97, 110, 103, 101, 108, 111, 103, 46, 109, 100>>

\* 'extension/changelog.md'
ExtensionChangelogName ==
    <<101, 120, 116, 101, 110, 115, 105, 111, 110, 47, 99, 104, 97, 110,
      103, 101, 108, 111, 103, 46, 109, 100>>

\* 'changes.md'
ChangesName ==
    <<99, 104, 97, 110, 103, 101, 115, 46, 109, 100>>

\* 'extension/changes.md'
ExtensionChangesName ==
    <<101, 120, 116, 101, 110, 115, 105, 111, 110, 47, 99, 104, 97, 110,
      103, 101, 115, 46, 109, 100>>

\* the test of extractReadme's find
IsReadmeEntry(entry) ==
    LET fileName == LowerCase(entry.fileName)
    IN  \/ fileName = ReadmeName
        \/ fileName = ExtensionReadmeName
        \/ EndsWith(fileName, SlashReadmeName)

\* the test of extractChangelog's find
IsChangelogEntry(entry) ==
    LET fileName == LowerCase(entry.fileName)
    IN  \/ fileName = ChangelogName
        \/ fileName = ExtensionChangelogName
        \/ EndsWith(fileName, SlashChangelogName)
        \/ fileName = ChangesName
        \/ fileName = ExtensionChangesName

\* the entry found and the text returned: no text when there is no entry
\* and when extractFile throws
ExtractedText(buf, entries, hits) ==
    LET entry == Find(entries, hits)
    IN  [entry |-> entry,
         text |-> IF entry = <<>> THEN <<>>
                  ELSE LET r == extractFile(buf, entry[1])
                       IN  IF r.ok THEN <<r.value>> ELSE <<>>]

extractReadme(buf, entries) ==
    ExtractedText(buf, entries, {i \in 1..Len(entries) : IsReadmeEntry(entries[i])})

extractChangelog(buf, entries) ==
    ExtractedText(buf, entries, {i \in 1..Len(entries) : IsChangelogEntry(entries[i])})

\* 'README.md'
UpperReadme ==
    <<82, 69, 65, 68, 77, 69, 46, 109, 100>>

\* 'extension/README.md'
ExtensionUpperReadme ==
    <<101, 120, 116, 101, 110, 115, 105, 111, 110, 47, 82, 69, 65, 68, 77,
      69, 46, 109, 100>>

\* 'docs/Readme.md'
DocsReadme ==
    <<100, 111, 99, 115, 47, 82, 101, 97, 100, 109, 101, 46, 109, 100>>

\* 'extension/node_modules/dep/README.md'
DependencyReadme ==
    <<101, 120, 116, 101, 110, 115, 105, 111, 110, 47, 110, 111, 100, 101,
      95, 109, 111, 100, 117, 108, 101, 115, 47, 100, 101, 112, 47, 82, 69,
      65, 68, 77, 69, 46, 109, 100>>

\* 'unreadme.md'
NotReadme ==
    <<117, 110, 114, 101, 97, 100, 109, 101, 46, 109, 100>>

\* 'CHANGELOG.md'
UpperChangelog ==
    <<67, 72, 65, 78, 71, 69, 76, 79, 71, 46, 109, 100>>

\* 'extension/node_modules/dep/changelog.md'
DependencyChangelog ==
    <<101, 120, 116, 101, 110, 115, 105, 111, 110, 47, 110, 111, 100, 101,
      95, 109, 111, 100, 117, 108, 101, 115, 47, 100, 101, 112, 47, 99,
      104, 97, 110, 103, 101, 108, 111, 103, 46, 109, 100>>

\* 'CHANGES.md'
UpperChanges ==
    <<67, 72, 65, 78, 71, 69, 83, 46, 109, 100>>

\* 'extension/Changes.md'
ExtensionChanges ==
    <<101, 120, 116, 101, 110, 115, 105, 111, 110, 47, 67, 104, 97, 110,
      103, 101, 115, 46, 109, 100>>

\* 'docs/changes.md'
DocsChanges ==
    <<100, 111, 99, 115, 47, 99, 104, 97, 110, 103, 101, 115, 46, 109, 100>>

\* the texts of the documents
TextA == <<35, 32, 65>>

TextB == <<35, 32, 66>>

\* the readme and changelog members an archive may hold
ReadmeMembers ==
    {FileEntry(UpperReadme, "stored", TextA),
     FileEntry(ExtensionUpperReadme, "deflated", TextA),
     FileEntry(ExtensionUpperReadme, "damaged", TextA),
     FileEntry(DocsReadme, "stored", TextA),
     FileEntry(DependencyReadme, "stored", TextB),
     FileEntry(NotReadme, "stored", TextB)}

ChangelogMembers ==
    {FileEntry(UpperChangelog, "stored", TextA),
     FileEntry(DependencyChangelog, "stored", TextB),
     FileEntry(UpperChanges, "stored", TextA),
     FileEntry(ExtensionChanges, "deflated", TextA),
     FileEntry(DocsChanges, "stored", TextB)}

\* archives with a descriptor, up to two readme members and up to two
\* changelog members, in any order
DocArchives ==
    {Archive(<<FileEntry(ExtensionPackageJsonName, "stored", DescriptorText)>> \o r \o c,
             0, <<>>) :
        r \in {<<>>} \cup {<<a>> : a \in ReadmeMembers}
                \cup {<<a, b>> : a, b \in ReadmeMembers},
        c \in {<<>>} \cup {<<a>> : a \in ChangelogMembers}
                \cup {<<a, b>> : a, b \in ChangelogMembers}}

InitDocs ==
    /\ pc = "start"
    /\ vsixFile \in {<<>>, <<Zeros(22)>>} \cup {<<b>> : b \in DocArchives}
    /\ fileBuffer = <<>>
    /\ centralDirectory = <<>>
    /\ parseError = ""
    /\ extracted = <<>>
    /\ readme = <<>>
    /\ changelog = <<>>
    /\ iconPath = <<>>
    /\ iconEntry = <<>>
    /\ iconBuffer = <<>>
    /\ iconSource = <<>>
    /\ VersionIdle
    /\ DedupIdle
    /\ ReconcileIdle
    /\ ScanIdle
    /\ ProviderIdle

\* the central directory holds an entry after parse(), so it is not read
\* again
ExtractReadme ==
    /\ pc = "returned"
    /\ readme' = <<extractReadme(fileBuffer[1], centralDirectory)>>
    /\ pc' = "readme"
    /\ UNCHANGED <<vsixFile, fileBuffer, centralDirectory, parseError, extracted,
                   iconVars, changelog>>
    /\ UNCHANGED <<versionVars, dedupVars, reconcileVars, scanVars, providerVars>>

ExtractChangelog ==
    /\ pc = "readme"
    /\ changelog' = <<extractChangelog(fileBuffer[1], centralDirectory)>>
    /\ pc' = "changelog"
    /\ UNCHANGED <<vsixFile, fileBuffer, centralDirectory, parseError, extracted,
                   iconVars, readme>>
    /\ UNCHANGED <<versionVars, dedupVars, reconcileVars, scanVars, providerVars>>

NextDocs == Parse \/ ExtractReadme \/ ExtractChangelog

SpecDocs == InitDocs /\ [][NextDocs]_vars

(***************************************************************************)
(* The other two comparators of the program: VsixUtils.compareVersions and *)
(* PrivateExtensionsSidebarProvider.compareVersions.                        *)
(***************************************************************************)
OnlyDigits(s) == Len(s) > 0 /\ \A i \in 1..Len(s) : s[i] \in Digits

\* the position of the first ch in s, Len(s) + 1 when there is none
FirstIndex(s, ch) ==
    IF Includes(s, ch) THEN CHOOSE i \in 1..Len(s) : s[i] = ch /\ \A j \in 1..(i - 1) : s[j] # ch
    ELSE Len(s) + 1

\* the text from position i on
From(s, i) == SubSeq(s, i, Len(s))

\* the text after the second '.', <<>> when there are fewer than two
AfterSecondDot(version) ==
    LET first == FirstIndex(version, ".")
        second == first + FirstIndex(From(version, first + 1), ".")
    IN  From(version, second + 1)

\* the length of the leading run of decimal digits
RECURSIVE DigitRun(_)
DigitRun(s) ==
    IF s = <<>> \/ Head(s) \notin Digits THEN 0 ELSE 1 + DigitRun(Tail(s))

\* what follows the patch number matches (?:-([^+]+))?(?:\+(.+))?$
TailMatches(rest) ==
    \/ rest = <<>>
    \/ /\ Head(rest) = "-"
       /\ FirstIndex(rest, "+") > 2
       /\ FirstIndex(rest, "+") # Len(rest)
    \/ /\ Head(rest) = "+"
       /\ Len(rest) > 1

\* version.match(/^(\d+)\.(\d+)\.(\d+)(?:-([^+]+))?(?:\+(.+))?$/)
SemanticMatch(version) ==
    LET pieces == Split(version, ".")
        third == AfterSecondDot(version)
    IN  /\ Len(pieces) >= 3
        /\ OnlyDigits(pieces[1])
        /\ OnlyDigits(pieces[2])
        /\ DigitRun(third) > 0
        /\ TailMatches(From(third, DigitRun(third) + 1))

\* parseInt(parts[i], 10) || 0, parts[i] being undefined past the end
FallbackPart(parts, i) ==
    IF i <= Len(parts) THEN OrZero(ParseInt(parts[i])) ELSE 0

\* VsixUtils.parseSemanticVersion: prerelease is <<>> for undefined
parseSemanticVersion(version) ==
    IF SemanticMatch(version)
    THEN LET pieces == Split(version, ".")
             third == AfterSecondDot(version)
             rest == From(third, DigitRun(third) + 1)
         IN  [major |-> ParseInt(pieces[1]),
              minor |-> ParseInt(pieces[2]),
              patch |-> ParseInt(third),
              prerelease |-> IF rest # <<>> /\ Head(rest) = "-"
                             THEN SubSeq(rest, 2, FirstIndex(rest, "+") - 1)
                             ELSE <<>>]
    ELSE LET parts == Split(version, ".")
         IN  [major |-> FallbackPart(parts, 1),
              minor |-> FallbackPart(parts, 2),
              patch |-> FallbackPart(parts, 3),
              prerelease |-> <<>>]

\* the collation rank of a character: punctuation before digits before
\* letters
Rank(c) ==
    CASE c = "-" -> 1 [] c = "." -> 2 [] c = "+" -> 3
      [] c \in Digits -> 10 + DigitVal(c)
      [] c = "a" -> 21 [] c = "b" -> 22

\* String.prototype.localeCompare on texts of these characters
RECURSIVE LocaleCompare(_, _)
LocaleCompare(s, t) ==
    IF s = <<>> /\ t = <<>> THEN 0
    ELSE IF s = <<>> THEN -1
    ELSE IF t = <<>> THEN 1
    ELSE IF Rank(Head(s)) < Rank(Head(t)) THEN -1
    ELSE IF Rank(Head(s)) > Rank(Head(t)) THEN 1
    ELSE LocaleCompare(Tail(s), Tail(t))

\* VsixUtils.compareVersions
UtilsCompareVersions(version1, version2) ==
    LET v1 == parseSemanticVersion(version1)
        v2 == parseSemanticVersion(version2)
    IN  IF v1.major # v2.major THEN v1.major - v2.major
        ELSE IF v1.minor # v2.minor THEN v1.minor - v2.minor
        ELSE IF v1.patch # v2.patch THEN v1.patch - v2.patch
        ELSE IF v1.prerelease # <<>> /\ v2.prerelease = <<>> THEN -1
        ELSE IF v1.prerelease = <<>> /\ v2.prerelease # <<>> THEN 1
        ELSE IF v1.prerelease # <<>> /\ v2.prerelease # <<>>
        THEN LocaleCompare(v1.prerelease, v2.prerelease)
        ELSE 0

\* Number(part) on a piece cut at '.': 0 for the empty text, the value of a
\* text of decimal digits, NaN for a text with any other character
ToNumber(part) ==
    IF part = <<>> THEN 0
    ELSE IF OnlyDigits(part) THEN ParseInt(part)
    ELSE NaN

\* version.split('.').map(Number)
NumberParts(version) ==
    LET pieces == Split(version, ".")
    IN  [i \in 1..Len(pieces) |-> ToNumber(pieces[i])]

\* v1Parts[i] || 0
NumberPartAt(parts, i) == IF i <= Len(parts) THEN OrZero(parts[i]) ELSE 0

RECURSIVE SidebarCompareFrom(_, _, _, _)
SidebarCompareFrom(p1, p2, i, maxLength) ==
    IF i > maxLength THEN 0
    ELSE IF NumberPartAt(p1, i) > NumberPartAt(p2, i) THEN 1
    ELSE IF NumberPartAt(p1, i) < NumberPartAt(p2, i) THEN -1
    ELSE SidebarCompareFrom(p1, p2, i + 1, maxLength)

\* PrivateExtensionsSidebarProvider.compareVersions
SidebarCompareVersions(version1, version2) ==
    LET v1Parts == NumberParts(version1)
        v2Parts == NumberParts(version2)
    IN  SidebarCompareFrom(v1Parts, v2Parts, 1, Max(Len(v1Parts), Len(v2Parts)))

\* versions of one to four segments, plain, with a prerelease tag or with
\* build metadata
SemSegTexts == {<<"0">>, <<"1">>}

SemCores ==
    LET one == SemSegTexts
        two == {c \o <<".">> \o t : c \in one, t \in SemSegTexts}
        three == {c \o <<".">> \o t : c \in two, t \in SemSegTexts}
    IN  one \cup two \cup three \cup {<<"1", ".", "0", ".", "0", ".", "1">>}

SemSuffixes == {<<>>, <<"-", "a">>, <<"-", "b">>, <<"+", "a">>, <<"a">>}

SemVersions == {c \o t : c \in SemCores, t \in SemSuffixes}

InitComparators ==
    /\ pc = "operands"
    /\ va \in SemVersions
    /\ vb = <<>>
    /\ vc = <<>>
    /\ vres = 0
    /\ ord = NoOrd
    /\ DedupIdle
    /\ ReconcileIdle
    /\ ZipIdle
    /\ ScanIdle
    /\ ProviderIdle

\* the three comparators on the same pair
CompareAll ==
    /\ pc = "operands"
    /\ \E b \in SemVersions :
          /\ vb' = b
          /\ ord' = [storage |-> compareVersions(va, b),
                     utils |-> UtilsCompareVersions(va, b),
                     sidebar |-> SidebarCompareVersions(va, b)]
    /\ pc' = "all"
    /\ UNCHANGED <<va, vc, vres, dedupVars, reconcileVars, zipVars, scanVars, providerVars>>

NextComparators == CompareAll

SpecComparators == InitComparators /\ [][NextComparators]_vars

(***************************************************************************)
(* The StorageProvider as its callers and callbacks drive it: refresh(),   *)
(* scanAllDirectories(), the watcher's debounce, the follow-up scans of    *)
(* installExtension and uninstallExtension, dispose(), and the sidebar's   *)
(* scanDirectoriesInBackground().  One action is one turn of the event     *)
(* loop: a call's code up to its first await on file I/O or on a timer,    *)
(* or the code that runs when such an await settles.  A scan               *)
(* (getAllExtensions) is taken to read the directories when it starts; its *)
(* inside is the subject of the scan specification.                        *)
(***************************************************************************)
MaxCalls == 3

MaxTimers == 3

MaxDisk == 2

\* what getAllExtensions returns on the content of generation d
Listing(d) == <<[id |-> "acme.foo", version |-> d]>>

\* setTimeout: the timer added to the pending ones
SetTimeout(ts, kind, payload) ==
    ts \cup {[id |-> nextTimer, kind |-> kind, payload |-> payload]}

\* the delay each timer is set with, in milliseconds
Delay(kind) ==
    CASE kind = "emit" -> 0
      [] kind = "followUp" -> 1000
      [] kind = "debounce" -> 2000
      [] kind = "timeout" -> 25000

\* a timer can fire when none that was set before it with a delay no longer
\* is pending
Due(t) == \A e \in timers : e.id < t.id => Delay(e.kind) > Delay(t.kind)

\* mutant: the pending timer is left alone
ClearTimeout_none(ts, handle) == ts

\* clearTimeout: nothing happens when the timer has fired already
ClearTimeout(ts, handle) == {t \in ts : t.id # handle}

\* mutant: the flag is reset only when the refresh succeeded
AfterRefresh_onSuccess(outcome) == outcome = "failed"

\* _isRefreshing after the try statement of refresh(): the finally block
\* resets it whatever the outcome
AfterRefresh(outcome) == FALSE

\* the calls whose getAllExtensions is running
Scanning == {i \in 1..Len(calls) : calls[i].state = "scanning"}

\* a continuation of the sidebar is due before anything else happens: the
\* refresh it awaits has settled
Settled ==
    /\ background # <<>>
    /\ calls[background[1].call].state # "scanning"

\* refresh() up to its await of getAllExtensions: skipped with the cache's
\* values when a refresh is in progress, else the flag is set, the provider
\* initialized, the cache cleared and the scan started
RefreshCall ==
    /\ Len(calls) < MaxCalls
    /\ IF isRefreshing
       THEN /\ calls' = Append(calls, [kind |-> "refresh", state |-> "skipped",
                                       snapshot |-> disk, result |-> extensionCache])
            /\ UNCHANGED <<isRefreshing, isInitialized, extensionCache>>
       ELSE /\ calls' = Append(calls, [kind |-> "refresh", state |-> "scanning",
                                       snapshot |-> disk, result |-> <<>>])
            /\ isRefreshing' = TRUE
            /\ isInitialized' = TRUE
            /\ extensionCache' = <<>>

\* scanAllDirectories() up to its await of getAllExtensions: nothing when a
\* refresh is in progress, else the scan is started
ScanAllDirectoriesCall ==
    /\ Len(calls) < MaxCalls
    /\ calls' = Append(calls, [kind |-> "scan",
                               state |-> IF isRefreshing THEN "skipped" ELSE "scanning",
                               snapshot |-> disk, result |-> <<>>])

InitProvider ==
    /\ pc = "provider"
    /\ disk = 0
    /\ isInitialized = FALSE
    /\ isRefreshing = FALSE
    /\ extensionCache = <<>>
    /\ calls = <<>>
    /\ timers = {}
    /\ refreshTimeout = 0
    /\ nextTimer = 1
    /\ watching = TRUE
    /\ disposed = FALSE
    /\ fired = <<>>
    /\ lastCompleted = <<>>
    /\ burst = 0
    /\ isScanning = FALSE
    /\ loadingPromise = FALSE
    /\ background = <<>>
    /\ installedExtensions = <<>>
    /\ VersionIdle
    /\ DedupIdle
    /\ ReconcileIdle
    /\ ZipIdle
    /\ ScanIdle

\* refresh() called by the sidebar's scanDirectories
Refresh ==
    /\ ~Settled
    /\ ~disposed
    /\ ~isScanning
    /\ RefreshCall
    /\ UNCHANGED <<disk, timers, refreshTimeout, nextTimer, watching, disposed, fired,
                   lastCompleted, burst, isScanning, loadingPromise, background>>
    /\ UNCHANGED <<pc, versionVars, dedupVars, reconcileVars, zipVars, scanVars,
                   installedExtensions>>

\* getAllExtensions resolves in refresh(): the cache is filled, the event
\* scheduled, the list returned and the flag reset
RefreshCompletes ==
    /\ ~Settled
    /\ nextTimer <= MaxTimers
    /\ \E i \in Scanning :
          /\ calls[i].kind = "refresh"
          /\ LET found == Listing(calls[i].snapshot)
             IN  /\ extensionCache' = found
                 /\ timers' = SetTimeout(timers, "emit", found)
                 /\ calls' = [calls EXCEPT ![i].state = "returned",
                                           ![i].result = found]
                 /\ lastCompleted' = <<found>>
    /\ nextTimer' = nextTimer + 1
    /\ isRefreshing' = AfterRefresh("returned")
    /\ UNCHANGED <<disk, isInitialized, refreshTimeout, watching, disposed, fired,
                   burst, isScanning, loadingPromise, background>>
    /\ UNCHANGED <<pc, versionVars, dedupVars, reconcileVars, zipVars, scanVars,
                   installedExtensions>>

\* an error inside the try statement of refresh(): it is thrown on, and the
\* flag reset
RefreshFails ==
    /\ ~Settled
    /\ \E i \in Scanning :
          /\ calls[i].kind = "refresh"
          /\ calls' = [calls EXCEPT ![i].state = "failed"]
    /\ isRefreshing' = AfterRefresh("failed")
    /\ UNCHANGED <<disk, isInitialized, extensionCache, timers, refreshTimeout,
                   nextTimer, watching, disposed, fired, lastCompleted, burst,
                   isScanning, loadingPromise, background>>
    /\ UNCHANGED <<pc, versionVars, dedupVars, reconcileVars, zipVars, scanVars,
                   installedExtensions>>

\* getAllExtensions resolves in scanAllDirectories(): the cache is replaced
\* and the event fired; a disposed emitter has no listener left
ScanCompletes ==
    /\ ~Settled
    /\ \E i \in Scanning :
          /\ calls[i].kind = "scan"
          /\ LET found == Listing(calls[i].snapshot)
             IN  /\ extensionCache' = found
                 /\ fired' = IF disposed THEN fired ELSE <<found>>
                 /\ calls' = [calls EXCEPT ![i].state = "returned",
                                           ![i].result = found]
                 /\ lastCompleted' = <<found>>
    /\ UNCHANGED <<disk, isInitialized, isRefreshing, timers, refreshTimeout,
                   nextTimer, watching, disposed, burst, isScanning, loadingPromise,
                   background>>
    /\ UNCHANGED <<pc, versionVars, dedupVars, reconcileVars, zipVars, scanVars,
                   installedExtensions>>

\* an error inside the try statement of scanAllDirectories(): it is logged
ScanFails ==
    /\ ~Settled
    /\ \E i \in Scanning :
          /\ calls[i].kind = "scan"
          /\ calls' = [calls EXCEPT ![i].state = "failed"]
    /\ UNCHANGED <<disk, isInitialized, isRefreshing, extensionCache, timers,
                   refreshTimeout, nextTimer, watching, disposed, fired,
                   lastCompleted, burst, isScanning, loadingPromise, background>>
    /\ UNCHANGED <<pc, versionVars, dedupVars, reconcileVars, zipVars, scanVars,
                   installedExtensions>>

\* a .vsix file changes in a watched directory: debounceRefresh()
WatcherEvent ==
    /\ ~Settled
    /\ watching
    /\ disk < MaxDisk
    /\ nextTimer <= MaxTimers
    /\ disk' = disk + 1
    /\ timers' = SetTimeout(ClearTimeout(timers, refreshTimeout), "debounce", <<>>)
    /\ refreshTimeout' = nextTimer
    /\ nextTimer' = nextTimer + 1
    /\ burst' = burst + 1
    /\ UNCHANGED <<isInitialized, isRefreshing, extensionCache, calls, watching,
                   disposed, fired, lastCompleted, isScanning, loadingPromise,
                   background>>
    /\ UNCHANGED <<pc, versionVars, dedupVars, reconcileVars, zipVars, scanVars,
                   installedExtensions>>

\* the debounce timer fires
DebounceFires ==
    /\ ~Settled
    /\ \E t \in timers :
          /\ t.kind = "debounce"
          /\ Due(t)
          /\ timers' = timers \ {t}
    /\ ScanAllDirectoriesCall
    /\ burst' = 0
    /\ UNCHANGED <<disk, isInitialized, isRefreshing, extensionCache, refreshTimeout,
                   nextTimer, watching, disposed, fired, lastCompleted, isScanning,
                   loadingPromise, background>>
    /\ UNCHANGED <<pc, versionVars, dedupVars, reconcileVars, zipVars, scanVars,
                   installedExtensions>>

\* installExtension or uninstallExtension on a record of the cache succeeds:
\* the record's flags change and the follow-up scan is scheduled
InstallExtension ==
    /\ ~Settled
    /\ ~disposed
    /\ extensionCache # <<>>
    /\ nextTimer <= MaxTimers
    /\ timers' = SetTimeout(timers, "followUp", <<>>)
    /\ nextTimer' = nextTimer + 1
    /\ UNCHANGED <<disk, isInitialized, isRefreshing, extensionCache, calls,
                   refreshTimeout, watching, disposed, fired, lastCompleted, burst,
                   isScanning, loadingPromise, background>>
    /\ UNCHANGED <<pc, versionVars, dedupVars, reconcileVars, zipVars, scanVars,
                   installedExtensions>>

\* the timer of installExtension or uninstallExtension fires
FollowUpFires ==
    /\ ~Settled
    /\ \E t \in timers :
          /\ t.kind = "followUp"
          /\ Due(t)
          /\ timers' = timers \ {t}
    /\ ScanAllDirectoriesCall
    /\ UNCHANGED <<disk, isInitialized, isRefreshing, extensionCache, refreshTimeout,
                   nextTimer, watching, disposed, fired, lastCompleted, burst,
                   isScanning, loadingPromise, background>>
    /\ UNCHANGED <<pc, versionVars, dedupVars, reconcileVars, zipVars, scanVars,
                   installedExtensions>>

\* the timer of refresh() fires the event
EmitFires ==
    /\ ~Settled
    /\ \E t \in timers :
          /\ t.kind = "emit"
          /\ Due(t)
          /\ timers' = timers \ {t}
          /\ fired' = IF disposed THEN fired ELSE <<t.payload>>
    /\ UNCHANGED <<disk, isInitialized, isRefreshing, extensionCache, calls,
                   refreshTimeout, nextTimer, watching, disposed, lastCompleted,
                   burst, isScanning, loadingPromise, background>>
    /\ UNCHANGED <<pc, versionVars, dedupVars, reconcileVars, zipVars, scanVars,
                   installedExtensions>>

\* the vsixDirectories setting changes: the listener of the constructor,
\* which is never removed, renews the watchers and scans when initialized
ConfigurationChange ==
    /\ ~Settled
    /\ watching' = TRUE
    /\ IF isInitialized THEN ScanAllDirectoriesCall ELSE UNCHANGED calls
    /\ UNCHANGED <<disk, isInitialized, isRefreshing, extensionCache, timers,
                   refreshTimeout, nextTimer, disposed, fired, lastCompleted, burst,
                   isScanning, loadingPromise, background>>
    /\ UNCHANGED <<pc, versionVars, dedupVars, reconcileVars, zipVars, scanVars,
                   installedExtensions>>

\* dispose(): the watchers are closed and the emitter disposed
Dispose ==
    /\ ~Settled
    /\ ~disposed
    /\ watching' = FALSE
    /\ disposed' = TRUE
    /\ UNCHANGED <<disk, isInitialized, isRefreshing, extensionCache, calls, timers,
                   refreshTimeout, nextTimer, fired, lastCompleted, burst, isScanning,
                   loadingPromise, background>>
    /\ UNCHANGED <<pc, versionVars, dedupVars, reconcileVars, zipVars, scanVars,
                   installedExtensions>>

\* the sidebar's scanDirectoriesInBackground() when no scan of its own is in
\* progress (it returns at once otherwise): the guards are set and
\* _performBackgroundScan races refresh() against a timer of 25 seconds
ScanDirectoriesInBackground ==
    /\ ~Settled
    /\ ~disposed
    /\ ~isScanning
    /\ ~loadingPromise
    /\ nextTimer <= MaxTimers
    /\ RefreshCall
    /\ isScanning' = TRUE
    /\ loadingPromise' = TRUE
    /\ timers' = SetTimeout(timers, "timeout", <<>>)
    /\ nextTimer' = nextTimer + 1
    /\ background' = <<[call |-> Len(calls) + 1, timer |-> nextTimer]>>
    /\ UNCHANGED <<disk, refreshTimeout, watching, disposed, fired, lastCompleted,
                   burst>>
    /\ UNCHANGED <<pc, versionVars, dedupVars, reconcileVars, zipVars, scanVars,
                   installedExtensions>>

\* the refresh awaited has settled: the finally block releases the guards
BackgroundSettles ==
    /\ Settled
    /\ isScanning' = FALSE
    /\ loadingPromise' = FALSE
    /\ background' = <<>>
    /\ UNCHANGED <<disk, isInitialized, isRefreshing, extensionCache, calls, timers,
                   refreshTimeout, nextTimer, watching, disposed, fired,
                   lastCompleted, burst>>
    /\ UNCHANGED <<pc, versionVars, dedupVars, reconcileVars, zipVars, scanVars,
                   installedExtensions>>

\* a timer of 25 seconds fires: the race is lost by the refresh when it is
\* still the one awaited, and the finally block releases the guards
TimeoutFires ==
    /\ ~Settled
    /\ \E t \in timers :
          /\ t.kind = "timeout"
          /\ Due(t)
          /\ timers' = timers \ {t}
          /\ IF background # <<>> /\ background[1].timer = t.id
             THEN /\ isScanning' = FALSE
                  /\ loadingPromise' = FALSE
                  /\ background' = <<>>
             ELSE UNCHANGED <<isScanning, loadingPromise, background>>
    /\ UNCHANGED <<disk, isInitialized, isRefreshing, extensionCache, calls,
                   refreshTimeout, nextTimer, watching, disposed, fired,
                   lastCompleted, burst>>
    /\ UNCHANGED <<pc, versionVars, dedupVars, reconcileVars, zipVars, scanVars,
                   installedExtensions>>

NextProvider ==
    \/ Refresh
    \/ RefreshCompletes
    \/ RefreshFails
    \/ ScanCompletes
    \/ ScanFails
    \/ WatcherEvent
    \/ DebounceFires
    \/ InstallExtension
    \/ FollowUpFires
    \/ EmitFires
    \/ ConfigurationChange
    \/ Dispose
    \/ ScanDirectoriesInBackground
    \/ BackgroundSettles
    \/ TimeoutFires

SpecProvider == InitProvider /\ [][NextProvider]_vars

(***************************************************************************)
(* The isInstalled and hasUpdate flags of the records, under scans,        *)
(* installExtension, uninstallExtension, and installations made outside    *)
(* the manager.  The records of the cache and of the list the last scan    *)
(* returned are the same objects: a flag set on one is set on the other.   *)
(***************************************************************************)
InstallIds == {"acme.foo", "acme.bar"}

InstallVersions == {V_1_2_3, V_2_0_0}

\* the states of vscode.extensions: <<>> for an id that is not installed
InstalledStates == [InstallIds -> {<<>>} \cup {<<v>> : v \in InstallVersions}]

\* the lists of deduplicated records a scan can find
FoundLists ==
    {<<>>}
    \cup {<<[id |-> "acme.foo", version |-> v, filePath |-> <<1, 1>>]>> :
             v \in InstallVersions}
    \cup {<<[id |-> "acme.foo", version |-> v, filePath |-> <<1, 1>>],
            [id |-> "acme.bar", version |-> w, filePath |-> <<1, 2>>]>> :
             v \in InstallVersions, w \in InstallVersions}

\* the record as installExtension leaves it
Installed(record) ==
    [record EXCEPT !.isInstalled = TRUE, !.hasUpdate = FALSE]

\* mutant: hasUpdate is left as it was
Uninstalled_keepsUpdate(record) == [record EXCEPT !.isInstalled = FALSE]

\* the record as uninstallExtension leaves it
Uninstalled(record) ==
    [record EXCEPT !.isInstalled = FALSE, !.hasUpdate = FALSE]

\* the position of id in the list, 0 when absent
CachePosition(list, id) ==
    IF \E i \in 1..Len(list) : list[i].id = id
    THEN CHOOSE i \in 1..Len(list) : list[i].id = id
    ELSE 0

\* Map.prototype.set of the record under its id
CacheSet(cache, record) ==
    IF CachePosition(cache, record.id) = 0 THEN Append(cache, record)
    ELSE [cache EXCEPT ![CachePosition(cache, record.id)] = record]

\* the records of the list with the one of that id rewritten
Rewritten(list, record) ==
    [i \in 1..Len(list) |-> IF list[i].id = record.id THEN record ELSE list[i]]

InitInstall ==
    /\ pc = "idle"
    /\ installedExtensions \in InstalledStates
    /\ extensions = <<>>
    /\ uniqueExtensions = <<>>
    /\ extensionCache = <<>>
    /\ extensionInfo = <<>>
    /\ manifestXml = <<>>
    /\ packageJson = <<>>
    /\ manifest = <<>>
    /\ extensionData = <<>>
    /\ validation = <<>>
    /\ disk = 0
    /\ isInitialized = FALSE
    /\ isRefreshing = FALSE
    /\ calls = <<>>
    /\ timers = {}
    /\ refreshTimeout = 0
    /\ nextTimer = 1
    /\ watching = FALSE
    /\ disposed = FALSE
    /\ fired = <<>>
    /\ lastCompleted = <<>>
    /\ burst = 0
    /\ isScanning = FALSE
    /\ loadingPromise = FALSE
    /\ background = <<>>
    /\ VersionIdle
    /\ ZipIdle
    /\ ScanIdle

installQuiet ==
    UNCHANGED <<versionVars, uniqueExtensions, manifestXml, packageJson, manifest,
                extensionData, validation, zipVars, scanVars, disk, isInitialized,
                isRefreshing, calls, timers, refreshTimeout, nextTimer, watching,
                disposed, fired, lastCompleted, burst, isScanning, loadingPromise,
                background>>

\* a scan by refresh() or scanAllDirectories(): getAllExtensions ends with
\* updateInstallationStatus on the records found, and the cache is replaced
\* by the list returned
ScanInstallationStatus ==
    /\ \E found \in FoundLists :
          /\ extensions' = updateInstallationStatus(found, installedExtensions)
          /\ extensionCache' = updateInstallationStatus(found, installedExtensions)
    /\ pc' = "scanned"
    /\ extensionInfo' = <<>>
    /\ UNCHANGED installedExtensions
    /\ installQuiet

\* installExtension(extensionInfo) on a record of the cache: the command
\* installs the archive, or throws and nothing is changed
installExtension ==
    /\ \E i \in 1..Len(extensionCache) :
          \/ /\ installedExtensions' =
                   [installedExtensions EXCEPT
                       ![extensionCache[i].id] = <<extensionCache[i].version>>]
             /\ extensionInfo' = <<Installed(extensionCache[i])>>
             /\ extensionCache' = CacheSet(extensionCache, Installed(extensionCache[i]))
             /\ extensions' = Rewritten(extensions, Installed(extensionCache[i]))
             /\ pc' = "installed"
          \/ /\ pc' = "install failed"
             /\ extensionInfo' = <<extensionCache[i]>>
             /\ UNCHANGED <<installedExtensions, extensionCache, extensions>>
    /\ installQuiet

\* uninstallExtension(extensionId): false when the id is not installed, and
\* when the command throws; else the cached record, if any, is rewritten
uninstallExtension ==
    /\ \E id \in InstallIds :
          IF installedExtensions[id] = <<>>
          THEN /\ pc' = "not found"
               /\ extensionInfo' = <<>>
               /\ UNCHANGED <<installedExtensions, extensionCache, extensions>>
          ELSE \/ /\ installedExtensions' = [installedExtensions EXCEPT ![id] = <<>>]
                  /\ LET position == CachePosition(extensionCache, id)
                     IN  IF position = 0
                         THEN /\ extensionInfo' = <<>>
                              /\ UNCHANGED <<extensionCache, extensions>>
                         ELSE LET cachedExtension == Uninstalled(extensionCache[position])
                              IN  /\ extensionInfo' = <<cachedExtension>>
                                  /\ extensionCache' = CacheSet(extensionCache, cachedExtension)
                                  /\ extensions' = Rewritten(extensions, cachedExtension)
                  /\ pc' = "uninstalled"
               \/ /\ pc' = "uninstall failed"
                  /\ extensionInfo' = <<>>
                  /\ UNCHANGED <<installedExtensions, extensionCache, extensions>>
    /\ installQuiet

\* an extension is installed, updated or removed outside the manager
ExtensionsChange ==
    /\ \E id \in InstallIds, now \in {<<>>} \cup {<<v>> : v \in InstallVersions} :
          /\ now # installedExtensions[id]
          /\ installedExtensions' = [installedExtensions EXCEPT ![id] = now]
    /\ pc' = "changed"
    /\ UNCHANGED <<extensions, extensionCache, extensionInfo>>
    /\ installQuiet

NextInstall ==
    \/ ScanInstallationStatus
    \/ installExtension
    \/ uninstallExtension
    \/ ExtensionsChange

SpecInstall == InitInstall /\ [][NextInstall]_vars

(***************************************************************************)
(*                         The claims                                      *)
(***************************************************************************)
Sign(n) == IF n > 0 THEN 1 ELSE IF n < 0 THEN -1 ELSE 0

\* C1: compareVersions is a total preorder on version strings: comparing a
\* version with itself gives 0, swapping the operands negates the sign, and
\* a <= b and b <= c imply a <= c.
C1_TotalPreorder ==
    pc = "ordered" =>
        /\ ord.aa = 0
        /\ Sign(ord.ab) = 0 - Sign(ord.ba)
        /\ (ord.ab <= 0 /\ ord.bc <= 0) => ord.ac <= 0

\* a chain a < b = c in which the operands have different segment counts and
\* the tie of b and c needs the padding with zeros
C1_Witness ==
    /\ pc = "ordered"
    /\ ord.ab < 0
    /\ ord.bc = 0
    /\ ord.ac < 0
    /\ vb # vc
    /\ Len(VersionParts(vb)) # Len(VersionParts(vc))
    /\ Len(VersionParts(va)) # Len(VersionParts(vb))

\* a version string with neither a prerelease nor a build suffix
Plain(v) == ~Includes(v, "-") /\ ~Includes(v, "+")

AllDigits(seg) == Len(seg) > 0 /\ \A i \in 1..Len(seg) : seg[i] \in Digits

RECURSIVE Pow10(_)
Pow10(n) == IF n = 0 THEN 1 ELSE 10 * Pow10(n - 1)

\* the decimal value of the first n characters of seg, all of them digits
RECURSIVE DecimalOf(_, _)
DecimalOf(seg, n) ==
    IF n = 0 THEN 0 ELSE 10 * DecimalOf(seg, n - 1) + DigitVal(seg[n])

\* a segment read as an integer, anything that is not a decimal numeral is 0
StrictValue(seg) == IF AllDigits(seg) THEN DecimalOf(seg, Len(seg)) ELSE 0

\* the integer written by the leading decimal digits of a segment, 0 when
\* the segment does not start with a digit
LeadingDigits(seg) ==
    Cardinality({n \in 1..Len(seg) : \A i \in 1..n : seg[i] \in Digits})

PrefixValue(seg) == DecimalOf(seg, LeadingDigits(seg))

\* the value of the i-th dot-separated segment, 0 when it is missing
SegmentAt(v, i, strict) ==
    LET segs == Split(v, ".")
    IN  IF i > Len(segs) THEN 0
        ELSE IF strict THEN StrictValue(segs[i]) ELSE PrefixValue(segs[i])

\* the sign decided by the first unequal segment, up to the longer operand
FirstDifference(a, b, strict) ==
    LET n == Max(Len(Split(a, ".")), Len(Split(b, ".")))
        D == {i \in 1..n : SegmentAt(a, i, strict) # SegmentAt(b, i, strict)}
    IN  IF D = {} THEN 0
        ELSE LET i == CHOOSE k \in D : \A j \in D : k <= j
             IN  IF SegmentAt(a, i, strict) < SegmentAt(b, i, strict) THEN -1 ELSE 1

V_1_2_0 == <<"1", ".", "2", ".", "0">>

V_1_10_0 == <<"1", ".", "1", "0", ".", "0">>

V_1_0 == <<"1", ".", "0">>

V_1_0_0 == <<"1", ".", "0", ".", "0">>

WithoutBuild(v) == Split(v, "+")[1]

HasPrerelease(v) == Includes(WithoutBuild(v), "-")

\* the core: what is left of WithoutBuild(v) before its first '-'
CoreOf(v) == Split(WithoutBuild(v), "-")[1]

CoresEqual(a, b) == FirstDifference(CoreOf(a), CoreOf(b), FALSE) = 0

\* C3: with equal cores the result is negative when only the first operand
\* carries a prerelease suffix, positive when only the second does, and 0
\* when both or neither do.
C3_PrereleaseTieBreak ==
    (pc = "compared" /\ CoresEqual(va, vb)) =>
        vres = (IF HasPrerelease(va) /\ ~HasPrerelease(vb) THEN -1
                ELSE IF ~HasPrerelease(va) /\ HasPrerelease(vb) THEN 1
                ELSE 0)

\* C4: build metadata never changes the result: compareVersions(v+"+"+m, v)
\* is 0 for every version v and build string m.
C4_BuildMetadataIgnored ==
    (pc = "compared" /\ \E m \in Builds : va = vb \o <<"+">> \o m) => vres = 0

\* the positions of the records of one id, and among them those of maximal
\* version under compareVersions
PositionsOf(exts, id) == {i \in 1..Len(exts) : exts[i].id = id}

MaximalOf(exts, id) ==
    {i \in PositionsOf(exts, id) :
        \A j \in PositionsOf(exts, id) :
            compareVersions(exts[j].version, exts[i].version) <= 0}

\* C8: deduplicateExtensions returns exactly one record per distinct id, and
\* the record kept for an id is the first in input order among those of
\* maximal version.
C8_DedupKeepsFirstMaximal ==
    pc = "deduplicated" =>
        /\ {uniqueExtensions[i].id : i \in 1..Len(uniqueExtensions)}
             = {extensions[i].id : i \in 1..Len(extensions)}
        /\ \A i, j \in 1..Len(uniqueExtensions) :
             uniqueExtensions[i].id = uniqueExtensions[j].id => i = j
        /\ \A i \in 1..Len(uniqueExtensions) :
             LET id == uniqueExtensions[i].id
                 first == CHOOSE k \in MaximalOf(extensions, id) :
                              \A l \in MaximalOf(extensions, id) : k <= l
             IN  /\ MaximalOf(extensions, id) # {}
                 /\ uniqueExtensions[i] = extensions[first]

\* three archives of one id: the second and the third carry the maximal
\* version, the first a lower one, and the second is the one kept
C8_Witness ==
    /\ pc = "deduplicated"
    /\ Len(extensions) = 3
    /\ Len(uniqueExtensions) = 1
    /\ MaximalOf(extensions, extensions[1].id) = {2, 3}
    /\ uniqueExtensions[1].filePath = 2

\* the manifest text carries an Identity tag with Id, Version and Publisher,
\* so the decoded manifest has an identity block
HasIdentityBlock ==
    /\ manifestXml # <<>>
    /\ manifest # <<>>
    /\ Len(manifest[1].Metadata) > 0

\* C5: with a descriptor and a manifest that has an identity block, the
\* record's id is manifest Publisher + "." + manifest Id, its version the
\* manifest Version and its publisher the manifest Publisher.
C5_ManifestPriority ==
    (pc \in {"complete", "validated"} /\ packageJson # <<>> /\ HasIdentityBlock) =>
        LET tag == manifestXml[1].Identity[1]
            data == extensionData[1]
        IN  /\ data.id = tag.Publisher \o "." \o tag.Id
            /\ data.version = tag.Version
            /\ data.publisher = tag.Publisher

\* both documents are complete and disagree on name, version and publisher
C5_Witness ==
    /\ pc = "complete"
    /\ HasIdentityBlock
    /\ packageJson # <<>>
    /\ packageJson[1].name = "foo"
    /\ packageJson[1].publisher = "acme"
    /\ packageJson[1].version = V_1_2_3
    /\ extensionInfo # <<>>
    /\ extensionInfo[1].id = "contoso.bar"
    /\ extensionInfo[1].version = V_2_0_0

\* the descriptor has name, publisher and version
DescriptorComplete(d) ==
    /\ d.name \notin {Undefined, ""}
    /\ d.publisher \notin {Undefined, ""}
    /\ d.version # <<>>

\* the record a descriptor alone stands for
DescriptorRecord(d) ==
    [id |-> d.publisher \o "." \o d.name,
     version |-> d.version,
     publisher |-> d.publisher,
     title |-> IF d.displayName \notin {Undefined, ""} THEN d.displayName ELSE d.name,
     description |-> IF d.description = Undefined THEN "" ELSE d.description,
     author |-> IF d.author.kind \in {"string", "object"}
                   /\ d.author.value \notin {Undefined, ""}
                THEN d.author.value ELSE "Unknown",
     categories |-> d.categories,
     keywords |-> d.keywords,
     engines |-> d.engines,
     activationEvents |-> d.activationEvents,
     main |-> d.main,
     preview |-> d.preview,
     galleryBanner |-> d.galleryBanner,
     repository |-> d.repository.value,
     homepage |-> d.homepage,
     license |-> d.license,
     tags |-> <<>>,
     galleryFlags |-> <<>>,
     targetPlatforms |-> <<>>,
     language |-> Undefined]

\* C6: without a manifest, a descriptor with name, publisher and version
\* gives id = publisher.name, its own version, title = displayName or else
\* name, every other field from the descriptor, and no tags, galleryFlags,
\* targetPlatforms or language.
C6_DescriptorOnly ==
    (/\ pc \in {"complete", "validated"}
     /\ manifest = <<>>
     /\ packageJson # <<>>
     /\ DescriptorComplete(packageJson[1])) =>
        extensionData[1] = DescriptorRecord(packageJson[1])

\* the archive of the scenario: name foo, publisher acme, version 1.2.3, no
\* display name, no manifest
C6_Witness ==
    /\ pc = "complete"
    /\ manifestXml = <<>>
    /\ packageJson # <<>>
    /\ packageJson[1].name = "foo"
    /\ packageJson[1].publisher = "acme"
    /\ packageJson[1].version = V_1_2_3
    /\ packageJson[1].displayName = Undefined
    /\ extensionInfo # <<>>
    /\ extensionInfo[1].id = "acme.foo"
    /\ extensionInfo[1].title = "foo"
    /\ extensionInfo[1].tags = <<>>

NonEmptyRequired(data) ==
    /\ data.id \notin {Undefined, ""}
    /\ data.version # <<>>
    /\ data.publisher \notin {Undefined, ""}

\* C7: a record is produced, and a file validated, only if the merged id,
\* version and publisher are all non-empty; without descriptor and manifest
\* the archive is rejected for missing required fields.
C7_RequiredFields ==
    /\ (pc = "complete" /\ extensionInfo # <<>>) =>
           /\ NonEmptyRequired(extensionData[1])
           /\ NonEmptyRequired(extensionInfo[1])
    /\ (pc = "validated" /\ validation[1].isValid) =>
           NonEmptyRequired(extensionData[1])
    /\ (pc = "complete" /\ packageJson = <<>> /\ manifest = <<>>) =>
           extensionInfo = <<>>
    /\ (pc = "validated" /\ packageJson = <<>> /\ manifest = <<>>) =>
           validation[1] = [isValid |-> FALSE,
                            error |-> "Missing required fields in extension metadata"]

\* an archive with neither document has been validated and rejected
C7_Witness ==
    /\ pc = "validated"
    /\ packageJson = <<>>
    /\ manifestXml = <<>>
    /\ manifest = <<>>
    /\ ~validation[1].isValid

\* the four bytes 50 4b 05 06 of the End-of-Central-Directory signature at
\* offset i of a buffer
EndSignatureAt(buf, i) ==
    /\ i >= 0
    /\ i + 4 <= Len(buf)
    /\ buf[i + 1] = 80
    /\ buf[i + 2] = 75
    /\ buf[i + 3] = 5
    /\ buf[i + 4] = 6

HasEndSignature(buf) == \E i \in 0..(Len(buf) - 22) : EndSignatureAt(buf, i)

\* C9: on a file whose bytes hold no End-of-Central-Directory signature at an
\* offset <= length - 22 (a file shorter than 22 bytes included),
\* VsixParser.parse never gets past parseCentralDirectory and never returns:
\* it fails there with 'End of Central Directory not found'.
C9_NoEndRecordFails ==
    (vsixFile # <<>> /\ ~HasEndSignature(vsixFile[1]))
        => /\ pc \in {"start", "loaded", "failed"}
           /\ pc = "failed" => parseError = "End of Central Directory not found"

\* parse has failed on a file of 22 bytes or more that holds the signature,
\* but only at an offset beyond length - 22
C9_Witness ==
    /\ pc = "failed"
    /\ parseError = "End of Central Directory not found"
    /\ Len(fileBuffer[1]) >= 22
    /\ ~HasEndSignature(fileBuffer[1])
    /\ \E i \in 0..(Len(fileBuffer[1]) - 4) : EndSignatureAt(fileBuffer[1], i)

\* the entry's local file header does not start with 50 4b 03 04, or names a
\* compression method other than 0 and 8
DamagedLocalHeader(buf, entry) ==
    LET offset == entry.localHeaderOffset
    IN  \/ ~InRange(buf, offset, 4)
        \/ <<buf[offset + 1], buf[offset + 2], buf[offset + 3], buf[offset + 4]>>
               # <<80, 75, 3, 4>>
        \/ /\ InRange(buf, offset, 10)
           /\ ReadUInt16LE(buf, offset + 8) \notin {0, 8}

\* C10: when the descriptor entry or the manifest entry of an archive has a
\* local file header with a wrong signature or a compression method other
\* than 0 and 8, VsixParser.parse fails: it does not return.
C10_DamagedEntryFailsParse ==
    pc = "returned" =>
        /\ \A i \in 1..Len(PackageEntry(centralDirectory)) :
              ~DamagedLocalHeader(fileBuffer[1],
                                  PackageEntry(centralDirectory)[i])
        /\ \A i \in 1..Len(ManifestEntry(centralDirectory)) :
              ~DamagedLocalHeader(fileBuffer[1],
                                  ManifestEntry(centralDirectory)[i])

\* the number written by the two bytes at an offset, low byte first
Word(buf, offset) == buf[offset + 1] + 256 * buf[offset + 2]

\* the local file header at an offset is whole and starts with 50 4b 03 04
LocalHeaderAt(buf, offset) ==
    /\ offset + 30 <= Len(buf)
    /\ <<buf[offset + 1], buf[offset + 2], buf[offset + 3], buf[offset + 4]>>
           = <<80, 75, 3, 4>>

\* the compressedSize bytes of an entry that start after the local header,
\* its own file name and its own extra field
DataAfterLocalHeader(buf, entry) ==
    LET start == entry.localHeaderOffset + 30
                     + Word(buf, entry.localHeaderOffset + 26)
                     + Word(buf, entry.localHeaderOffset + 28)
    IN  SubSeq(buf, start + 1, Min(start + entry.compressedSize, Len(buf)))

\* C11: extractFile(e) reads the local header at e.localHeaderOffset and
\* takes the compressedSize bytes that start at e.localHeaderOffset + 30 +
\* the local header's file-name length + the local header's extra-field
\* length; it returns them unchanged when e's method is 0, their raw inflate
\* when it is 8, and throws for every other method.
C11_ExtractFileUsesLocalLengths ==
    pc = "extracted" =>
        LET buf == fileBuffer[1]
            e == centralDirectory[extracted[1].entry]
            r == extracted[1].result
        IN  IF ~LocalHeaderAt(buf, e.localHeaderOffset) THEN ~r.ok
            ELSE /\ e.compressionMethod = 0 =>
                        r.ok /\ r.value = DataAfterLocalHeader(buf, e)
                 /\ e.compressionMethod = 8 =>
                        r = inflateData(DataAfterLocalHeader(buf, e))
                 /\ e.compressionMethod \notin {0, 8} => ~r.ok

\* a deflated entry whose local header carries an extra field that the
\* central directory entry does not has been extracted, and the bytes are the
\* descriptor's text
C11_Witness ==
    /\ pc = "extracted"
    /\ extracted[1].result.ok
    /\ extracted[1].result.value = DescriptorText
    /\ LET e == centralDirectory[extracted[1].entry]
       IN  /\ e.compressionMethod = 8
           /\ e.extraFieldLength = 0
           /\ Word(fileBuffer[1], e.localHeaderOffset + 28) = 9

\* the number written by the four bytes at an offset, low byte first
DoubleWord(buf, offset) == Word(buf, offset) + 65536 * Word(buf, offset + 2)

\* the offset of the End-of-Central-Directory record: the last offset up to
\* length - 22 that holds its signature
EndRecordOffset(buf) ==
    CHOOSE i \in 0..(Len(buf) - 22) :
        /\ EndSignatureAt(buf, i)
        /\ \A j \in (i + 1)..(Len(buf) - 22) : ~EndSignatureAt(buf, j)

\* the offset of the k-th record of the central directory, reached from the
\* directory offset of the end record by advancing 46 + name length + extra
\* length + comment length past each record before it
RECURSIVE DirectoryOffset(_, _)
DirectoryOffset(buf, k) ==
    IF k = 1 THEN DoubleWord(buf, EndRecordOffset(buf) + 16)
    ELSE LET previous == DirectoryOffset(buf, k - 1)
         IN  previous + 46 + Word(buf, previous + 28) + Word(buf, previous + 30)
                 + Word(buf, previous + 32)

\* the central directory record at an offset starts with 50 4b 01 02
CentralSignatureAt(buf, offset) ==
    /\ offset + 46 <= Len(buf)
    /\ <<buf[offset + 1], buf[offset + 2], buf[offset + 3], buf[offset + 4]>>
           = <<80, 75, 1, 2>>

\* C12: once parseCentralDirectory has completed without error, the entry
\* list holds exactly totalEntries entries (the count in the end record), in
\* the order of the central directory on disk: the k-th entry is the record
\* read at the offset reached by advancing 46 + name length + extra length +
\* comment length past each record before it, and every such record starts
\* with the signature 0x02014b50 (else the call has failed).
C12_EntriesMatchDirectory ==
    pc \in {"indexed", "descriptor", "returned", "extracted"} =>
        LET buf == fileBuffer[1]
        IN  /\ Len(centralDirectory) = Word(buf, EndRecordOffset(buf) + 10)
            /\ \A k \in 1..Len(centralDirectory) :
                  LET offset == DirectoryOffset(buf, k)
                      entry == centralDirectory[k]
                  IN  /\ CentralSignatureAt(buf, offset)
                      /\ entry.compressionMethod = Word(buf, offset + 10)
                      /\ entry.compressedSize = DoubleWord(buf, offset + 20)
                      /\ entry.localHeaderOffset = DoubleWord(buf, offset + 42)
                      /\ entry.fileName
                             = SubSeq(buf, offset + 47,
                                      offset + 46 + Word(buf, offset + 28))

\* a directory of three entries has been read whose first two records carry
\* a comment, so that the third is found only by advancing past both
C12_Witness ==
    /\ pc = "indexed"
    /\ Len(centralDirectory) = 3
    /\ centralDirectory[1].fileCommentLength = 2
    /\ centralDirectory[2].fileCommentLength = 2
    /\ centralDirectory[3].fileName = ContentTypesName

\* the positions of the entries named p or 'extension/' followed by p
PositionsNamed(entries, p) ==
    {k \in 1..Len(entries) :
        \/ entries[k].fileName = p
        \/ entries[k].fileName
               = <<101, 120, 116, 101, 110, 115, 105, 111, 110, 47>> \o p}

\* the first entry named p or 'extension/' followed by p, <<>> when there is
\* none
FirstNamed(entries, p) ==
    IF PositionsNamed(entries, p) = {} THEN <<>>
    ELSE <<entries[CHOOSE k \in PositionsNamed(entries, p) :
                      \A j \in PositionsNamed(entries, p) : k <= j]>>

\* C13: the lookup of extractIcon(p) and the lookup of extractPackageJson
\* (p = 'package.json') yield the first entry, in central-directory order,
\* whose name is p or "extension/" + p, and yield nothing only when neither
\* name occurs; with no such entry the call returns null.
C13_PrefixTolerantLookup ==
    /\ pc = "icon" =>
          /\ iconEntry = FirstNamed(centralDirectory, iconPath)
          /\ iconEntry = <<>> => iconBuffer = <<>>
    /\ pc \in {"descriptor", "returned", "icon"} =>
          /\ PackageEntry(centralDirectory)
                 = FirstNamed(centralDirectory,
                              <<112, 97, 99, 107, 97, 103, 101, 46, 106, 115, 111, 110>>)
          /\ PackageEntry(centralDirectory) = <<>> => packageJson = <<>>

\* extractIcon('icon.png') on an archive that holds extension/icon.png before
\* icon.png has found the first of the two and returned its content
C13_Witness ==
    /\ pc = "icon"
    /\ iconPath = IconName
    /\ Len(centralDirectory) = 2
    /\ centralDirectory[1].fileName = ExtensionPrefix \o IconName
    /\ centralDirectory[2].fileName = IconName
    /\ iconEntry = <<centralDirectory[1]>>
    /\ iconBuffer = <<ImageB>>

\* the file is an archive (its extension name is .vsix in any case) that
\* parses and validates
GoodArchive(file) ==
    file.extname \in {".vsix", ".VSIX"} /\ file.content = "record"

\* C14: a failure on one archive (unreadable, malformed, required fields
\* missing) or on one directory does not abort the scan: for every archive of
\* an accessible, readable directory that parses and validates, the list that
\* getAllExtensions returns holds a record of its id, which is that archive's
\* record or, after duplicate resolution, the record of an archive of the same
\* id and a version not lower.
C14_ScanSurvivesFailures ==
    pc = "listed" =>
        \A d \in 1..Len(configured) :
            configured[d].kind = "listed" =>
                \A k \in 1..Len(configured[d].files) :
                    GoodArchive(configured[d].files[k]) =>
                        \E i \in 1..Len(uniqueExtensions) :
                            /\ uniqueExtensions[i].id = configured[d].files[k].id
                            /\ compareVersions(uniqueExtensions[i].version,
                                               configured[d].files[k].version) >= 0

\* a scan has returned a record although the first directory could not be
\* read and the first archive of the second directory was malformed
C14_Witness ==
    /\ pc = "listed"
    /\ Len(configured) = 2
    /\ configured[1].kind = "unreadable"
    /\ warnings = <<"/a">>
    /\ Len(configured[2].files) = 2
    /\ configured[2].files[1].content = "malformed"
    /\ GoodArchive(configured[2].files[2])
    /\ Len(uniqueExtensions) = 1
    /\ uniqueExtensions[1].filePath = <<"/b", 2>>

\* the first non-empty value of a list of optional strings, "" when there
\* is none
RECURSIVE FirstNonEmpty(_)
FirstNonEmpty(values) ==
    IF values = <<>> THEN ""
    ELSE IF values[1] \notin {Undefined, ""} THEN values[1]
    ELSE FirstNonEmpty(Tail(values))

\* the decoded manifest has a Metadata block
HasMetadata == manifest # <<>> /\ Len(manifest[1].Metadata) > 0

\* the display name and the identity Id of the decoded manifest
ManifestDisplayName ==
    IF HasMetadata /\ Len(manifest[1].Metadata[1].DisplayName) > 0
    THEN manifest[1].Metadata[1].DisplayName[1] ELSE Undefined

ManifestIdentityId ==
    IF HasMetadata /\ Len(manifest[1].Metadata[1].Identity) > 0
    THEN manifest[1].Metadata[1].Identity[1].Id ELSE Undefined

ManifestPublisher ==
    IF HasMetadata /\ Len(manifest[1].Metadata[1].Identity) > 0
    THEN manifest[1].Metadata[1].Identity[1].Publisher ELSE Undefined

DescriptorField(field) ==
    IF packageJson # <<>> THEN packageJson[1][field] ELSE Undefined

\* C15: the reconciled title is the first non-empty value of the manifest
\* display name, the manifest identity Id, the descriptor's displayName and
\* the descriptor's name.
C15_TitlePriority ==
    (pc \in {"complete", "validated"}) =>
        extensionData[1].title =
            FirstNonEmpty(<<ManifestDisplayName, ManifestIdentityId,
                            DescriptorField("displayName"), DescriptorField("name")>>)

\* the manifest has an identity and no display name, the descriptor has a
\* display name: the record is titled by the manifest's Id
C15_Witness ==
    /\ pc = "complete"
    /\ HasMetadata
    /\ ManifestDisplayName = Undefined
    /\ ManifestIdentityId = "bar"
    /\ DescriptorField("displayName") = "Foo Tools"
    /\ extensionInfo # <<>>
    /\ extensionInfo[1].title = "bar"

\* the author the descriptor supplies: a non-empty string, the name of an
\* author object or "Unknown" for an object without a name
DescriptorAuthor ==
    IF packageJson = <<>> THEN Undefined
    ELSE LET author == packageJson[1].author
         IN  IF author.kind = "string" /\ author.value \notin {Undefined, ""}
             THEN author.value
             ELSE IF author.kind = "object"
             THEN IF author.value \notin {Undefined, ""} THEN author.value
                  ELSE "Unknown"
             ELSE Undefined

\* C16: the reconciled author is the descriptor's author when it is a
\* non-empty string, the author object's name or "Unknown" when it is an
\* object, otherwise the manifest publisher, and "Unknown" when no source
\* supplies one; the author of every record is a non-empty string.
C16_AuthorPriority ==
    /\ (pc \in {"complete", "validated"}) =>
           extensionData[1].author =
               IF DescriptorAuthor # Undefined THEN DescriptorAuthor
               ELSE IF ManifestPublisher \notin {Undefined, ""} THEN ManifestPublisher
               ELSE "Unknown"
    /\ (pc = "complete" /\ extensionInfo # <<>>) =>
           extensionInfo[1].author \notin {Undefined, ""}

\* an author object without a name beside a manifest with a publisher: the
\* record's author is "Unknown", not the publisher
C16_Witness ==
    /\ pc = "complete"
    /\ packageJson # <<>>
    /\ packageJson[1].author = [kind |-> "object", value |-> Undefined]
    /\ ManifestPublisher = "contoso"
    /\ extensionInfo # <<>>
    /\ extensionInfo[1].author = "Unknown"

\* the Value of the manifest's Property with the given Id, when it has one
\* with a non-empty Value
ManifestProperty(key) ==
    IF HasMetadata /\ Len(manifest[1].Metadata[1].Properties) > 0
    THEN LET properties == manifest[1].Metadata[1].Properties[1]
             hits == {i \in 1..Len(properties) :
                         properties[i].Id = key /\ properties[i].Value # ""}
         IN  IF hits = {} THEN Undefined
             ELSE properties[CHOOSE i \in hits : TRUE].Value
    ELSE Undefined

\* the manifest's categories, <<>> when it has none
ManifestCategories ==
    IF HasMetadata THEN manifest[1].Metadata[1].Categories ELSE <<>>

\* the descriptor's repository: the string, or the url of the object
DescriptorRepository ==
    IF packageJson # <<>> THEN packageJson[1].repository.value ELSE Undefined

\* the manifest's value when non-empty, otherwise the descriptor's
ManifestFirst(manifestValue, descriptorValue) ==
    IF manifestValue \notin {Undefined, ""} THEN manifestValue ELSE descriptorValue

\* C17: repository, homepage, license and categories of the record are the
\* manifest's value when non-empty and otherwise the descriptor's; the
\* engines are the descriptor's when present and otherwise the manifest's.
C17_LinkPriority ==
    (pc = "merged") =>
        LET data == extensionData[1]
        IN  /\ data.repository =
                   ManifestFirst(ManifestProperty(SourceKey), DescriptorRepository)
            /\ data.homepage =
                   ManifestFirst(ManifestProperty(GetstartedKey), DescriptorField("homepage"))
            /\ data.license =
                   ManifestFirst(ManifestProperty(LicenseKey), DescriptorField("license"))
            /\ data.categories =
                   IF ManifestCategories # <<>> THEN ManifestCategories
                   ELSE IF packageJson # <<>> THEN packageJson[1].categories
                   ELSE <<>>
            /\ data.engines =
                   IF DescriptorField("engines") # Undefined
                   THEN DescriptorField("engines")
                   ELSE ManifestProperty(EngineKey)

\* both documents give a repository, a license, categories and engines, and
\* only the descriptor a homepage: the record has the manifest's repository,
\* license and categories and the descriptor's homepage and engines
C17_Witness ==
    /\ pc = "merged"
    /\ ManifestProperty(SourceKey) = "https://git.example/bar"
    /\ ManifestProperty(LicenseKey) = "extension/LICENSE.txt"
    /\ ManifestProperty(GetstartedKey) = Undefined
    /\ ManifestProperty(EngineKey) = "^1.75.0"
    /\ ManifestCategories = <<<<"Themes", "Linters">>>>
    /\ packageJson # <<>>
    /\ packageJson[1].repository.value = "https://git.example/foo"
    /\ packageJson[1].license = "MIT"
    /\ packageJson[1].categories = <<<<"Other">>>>
    /\ extensionData[1].repository = "https://git.example/bar"
    /\ extensionData[1].license = "extension/LICENSE.txt"
    /\ extensionData[1].categories = <<<<"Themes", "Linters">>>>
    /\ extensionData[1].homepage = "https://acme.example/foo"
    /\ extensionData[1].engines = "^1.80.0"

\* the Value of the manifest text's Property element with the given Id
TextProperty(xml, key) ==
    LET hits == {i \in 1..Len(xml.Properties) :
                    xml.Properties[i].Id = key /\ xml.Properties[i].Value # ""}
    IN  IF hits = {} THEN Undefined
        ELSE xml.Properties[CHOOSE i \in hits : TRUE].Value

\* C18: from the archive's manifest text to the record, a Tags element, a
\* GalleryFlags element and a Property element with one of the four
\* well-known keys populate tags, galleryFlags, engines (unless the
\* descriptor has engines), repository, homepage and license.
C18_ManifestConstructsPopulate ==
    (pc \in {"complete", "validated"} /\ HasIdentityBlock) =>
        LET xml == manifestXml[1]
            data == extensionData[1]
        IN  /\ xml.Tags # <<>> => data.tags = <<xml.Tags>>
            /\ xml.GalleryFlags # <<>> => data.galleryFlags = <<xml.GalleryFlags>>
            /\ (TextProperty(xml, EngineKey) # Undefined
                    /\ DescriptorField("engines") = Undefined) =>
                   data.engines = TextProperty(xml, EngineKey)
            /\ TextProperty(xml, SourceKey) # Undefined =>
                   data.repository = TextProperty(xml, SourceKey)
            /\ TextProperty(xml, GetstartedKey) # Undefined =>
                   data.homepage = TextProperty(xml, GetstartedKey)
            /\ TextProperty(xml, LicenseKey) # Undefined =>
                   data.license = TextProperty(xml, LicenseKey)

\* C19: from the archive's manifest text to the record, targetPlatforms is
\* the list of the Ids of all InstallationTarget elements, in document
\* order.
C19_AllInstallationTargets ==
    (pc \in {"complete", "validated"} /\ manifestXml # <<>>
        /\ manifestXml[1].InstallationTargets # <<>>) =>
        LET targets == manifestXml[1].InstallationTargets
        IN  extensionData[1].targetPlatforms =
                <<[i \in 1..Len(targets) |-> targets[i].Id]>>

\* the Path of the first asset of the decoded manifest whose Type is the
\* default or the small icon type
FirstIconAssetPath ==
    IF manifest = <<>> \/ manifest[1].Assets = <<>> THEN Undefined
    ELSE LET assets == manifest[1].Assets[1].Asset
             IsIcon(i) == assets[i].Type \in
                              {"Microsoft.VisualStudio.Services.Icons.Default",
                               "Microsoft.VisualStudio.Services.Icons.Small"}
         IN  IF \E i \in 1..Len(assets) : IsIcon(i)
             THEN assets[CHOOSE i \in 1..Len(assets) :
                            IsIcon(i) /\ \A j \in 1..(i - 1) : ~IsIcon(j)].Path
             ELSE Undefined

\* the icon path the claim describes, <<>> when none resolves
ResolvedIconPath ==
    IF DescriptorField("icon") \notin {Undefined, ""}
    THEN <<DescriptorField("icon")>>
    ELSE IF FirstIconAssetPath \notin {Undefined, ""} THEN <<FirstIconAssetPath>>
    ELSE <<>>

\* the entries of the archive the path names: the path itself or the path
\* below extension/
NamedEntries(path) ==
    {i \in 1..Len(centralDirectory) :
        centralDirectory[i].fileName \in {Utf8(path), ExtensionPrefix \o Utf8(path)}}

\* the icon cannot be had: no path resolves, the path names no entry, or
\* extracting the entry fails
IconUnavailable ==
    \/ ResolvedIconPath = <<>>
    \/ NamedEntries(ResolvedIconPath[1]) = {}
    \/ LET hits == NamedEntries(ResolvedIconPath[1])
           first == CHOOSE i \in hits : \A j \in hits : i <= j
       IN  ~extractFile(fileBuffer[1], centralDirectory[first]).ok

\* C20: the icon path is the descriptor's icon when non-empty, otherwise the
\* Path of the first manifest asset of the default or small icon type; when
\* no path resolves, the path names no entry or the extraction fails, the
\* record is produced all the same, without an icon.
C20_IconResolution ==
    (pc = "built") =>
        /\ iconSource = ResolvedIconPath
        /\ (extensionInfo # <<>>) <=> NonEmptyRequired(extensionData[1])
        /\ (extensionInfo # <<>> /\ IconUnavailable) =>
               /\ extensionInfo[1].icon = <<>>
               /\ extensionInfo[1].iconBuffer = <<>>
        /\ (extensionInfo # <<>> /\ ~IconUnavailable) =>
               /\ extensionInfo[1].icon # <<>>
               /\ extensionInfo[1].iconBuffer # <<>>

\* the descriptor names icon.png, the archive's icon.png has a damaged local
\* header: the record is there, without an icon
C20_Witness ==
    /\ pc = "built"
    /\ DescriptorField("icon") = "icon.png"
    /\ iconEntry # <<>>
    /\ ~extractFile(fileBuffer[1], iconEntry[1]).ok
    /\ extensionInfo # <<>>
    /\ extensionInfo[1].icon = <<>>

\* the number of directory levels an entry's name is nested
RECURSIVE Depth(_)
Depth(name) ==
    IF name = <<>> THEN 0
    ELSE (IF Head(name) = 47 THEN 1 ELSE 0) + Depth(Tail(name))

\* the name without its directories
RECURSIVE BaseName(_)
BaseName(name) ==
    IF \E i \in 1..Len(name) : name[i] = 47 THEN BaseName(Tail(name)) ELSE name

\* C21: extractReadme and extractChangelog return the content only of an
\* entry whose lower-cased name is readme.md (changelog.md or changes.md),
\* at the archive root or nested exactly one directory level; an entry
\* nested two or more levels deep is never selected.
C21_DocumentsAtMostOneLevel ==
    /\ (pc \in {"readme", "changelog"} /\ readme[1].text # <<>>) =>
           LET name == readme[1].entry[1].fileName
           IN  /\ LowerCase(BaseName(name)) = ReadmeName
               /\ Depth(name) <= 1
    /\ (pc = "changelog" /\ changelog[1].text # <<>>) =>
           LET name == changelog[1].entry[1].fileName
           IN  /\ LowerCase(BaseName(name)) \in {ChangelogName, ChangesName}
               /\ Depth(name) <= 1

\* C25: StorageProvider.compareVersions, VsixUtils.compareVersions and the
\* sidebar's compareVersions return results of the same sign on every pair
\* of version strings.
C25_ComparatorsAgree ==
    (pc = "all") =>
        /\ Sign(ord.storage) = Sign(ord.utils)
        /\ Sign(ord.storage) = Sign(ord.sidebar)

\* the positions of the archive's extension.vsixmanifest entries
VsixManifestEntries ==
    {i \in 1..Len(centralDirectory) : centralDirectory[i].fileName = VsixManifestName}

\* the archive has an extension.vsixmanifest entry, and each one extracts to
\* the manifest text with the identity contoso.bar 2.0.0
HasRealManifest ==
    /\ VsixManifestEntries # {}
    /\ \A i \in VsixManifestEntries :
          LET r == extractFile(fileBuffer[1], centralDirectory[i])
          IN  r.ok /\ r.value = ManifestXmlText

\* C29: when the archive contains an extension.vsixmanifest entry with a
\* complete identity block, the manifest parse returns carries that
\* identity, wherever a [Content_Types].xml entry stands in the central
\* directory.
C29_RealManifestWins ==
    (pc = "returned" /\ HasRealManifest) =>
        /\ manifest # <<>>
        /\ Len(manifest[1].Metadata) > 0
        /\ manifest[1].Metadata[1].Identity[1].Id = "bar"
        /\ manifest[1].Metadata[1].Identity[1].Version = V_2_0_0
        /\ manifest[1].Metadata[1].Identity[1].Publisher = "contoso"


\* the timers of debounceRefresh that have not fired
DebounceTimers == {t \in timers : t.kind = "debounce"}

\* the calls that started a scan, in the order they started
Started == {i \in 1..Len(calls) : calls[i].state # "skipped"}

\* the calls appended by the step
NewCalls == {i \in 1..Len(calls') : i > Len(calls)}

\* C22: at most one full directory scan, a run of getAllExtensions started
\* by refresh() or by scanAllDirectories(), is in progress at any time
C22_AtMostOneScan == Cardinality(Scanning) <= 1

\* C23: at most one refresh timer of the watcher is pending, it is pending
\* exactly while events have arrived that no scan has followed, and when it
\* fires the whole burst is answered by one scanAllDirectories call
C23_Debounced ==
    /\ [](/\ Cardinality(DebounceTimers) <= 1
          /\ (burst > 0) <=> (DebounceTimers # {})
          /\ \A t \in DebounceTimers : t.id = refreshTimeout)
    /\ [][(burst > 0 /\ burst' = 0) =>
             /\ Len(calls') = Len(calls) + 1
             /\ calls'[Len(calls')].kind = "scan"
             /\ calls'[Len(calls')].snapshot = disk
             /\ DebounceTimers' = {}]_vars

\* two events in one burst, answered by one scan of the second content
C23_Witness ==
    /\ disk = 2
    /\ burst = 0
    /\ nextTimer = 3
    /\ timers = {}
    /\ Len(calls) = 1
    /\ calls[1].kind = "scan"
    /\ calls[1].state = "scanning"
    /\ calls[1].snapshot = 2

\* C24: after dispose() no directory scan is started and no onDidChange
\* event is delivered
C24_NothingAfterDispose ==
    [][disposed => (Scanning' \subseteq Scanning /\ fired' = fired)]_vars

\* C26: the list a refresh() returns is the result of a completed scan: its
\* own, or for a skipped refresh the last one completed
C26_RefreshReturnsCompletedScan ==
    [][/\ \A i \in NewCalls :
             (calls'[i].kind = "refresh" /\ calls'[i].state = "skipped"
                 /\ lastCompleted # <<>>)
             => calls'[i].result = lastCompleted[1]
       /\ \A i \in Scanning :
             (calls[i].kind = "refresh" /\ calls'[i].state = "returned")
             => calls'[i].result = Listing(calls[i].snapshot)]_vars

\* C27: when no scan is in flight and the scan that started last has
\* completed, the cache holds its records, and so does the last event once
\* every event has been delivered
C27_NewestScanWins ==
    (Scanning = {} /\ Started # {}) =>
        LET last == calls[CHOOSE i \in Started : \A j \in Started : j <= i]
        IN  last.state = "returned" =>
               /\ extensionCache = last.result
               /\ (~disposed /\ fired # <<>> /\ \A t \in timers : t.kind # "emit")
                     => fired[1] = last.result

\* C30: _isRefreshing is false whenever no refresh() is executing,
\* _isScanning is false and _loadingPromise undefined whenever no
\* scanDirectoriesInBackground() is executing, and a refresh() is skipped only
\* while an earlier one is executing
C30_GuardsReleased ==
    /\ [](/\ (\A i \in Scanning : calls[i].kind # "refresh") => ~isRefreshing
          /\ background = <<>> => (~isScanning /\ ~loadingPromise))
    /\ [][\A i \in NewCalls :
             (calls'[i].kind = "refresh" /\ calls'[i].state = "skipped")
             => \E j \in Scanning : calls[j].kind = "refresh"]_vars

\* a refresh failed, and the background scan that followed timed out while
\* its refresh was still running
C30_Witness ==
    /\ Len(calls) = 2
    /\ calls[1].kind = "refresh"
    /\ calls[1].state = "failed"
    /\ calls[2].kind = "refresh"
    /\ calls[2].state = "scanning"
    /\ nextTimer = 2
    /\ timers = {}
    /\ background = <<>>
    /\ ~isScanning
    /\ ~loadingPromise


\* the records a caller can hold: those of the cache and those of the list
\* the last scan returned
HeldRecords ==
    {extensionCache[i] : i \in 1..Len(extensionCache)}
    \cup {extensions[i] : i \in 1..Len(extensions)}

\* C28: no record has hasUpdate without isInstalled; right after a scan
\* hasUpdate says that the id is installed in a version below the archive's;
\* a successful installExtension or uninstallExtension leaves hasUpdate false
C28_UpdateImpliesInstalled ==
    /\ \A r \in HeldRecords : r.hasUpdate => r.isInstalled
    /\ pc = "scanned" =>
          \A r \in HeldRecords :
             /\ r.isInstalled <=> installedExtensions[r.id] # <<>>
             /\ r.hasUpdate <=>
                   /\ installedExtensions[r.id] # <<>>
                   /\ compareVersions(r.version, installedExtensions[r.id][1]) > 0
    /\ pc = "installed" =>
          /\ extensionInfo[1].isInstalled
          /\ ~extensionInfo[1].hasUpdate
          /\ extensionInfo[1] \in HeldRecords
    /\ (pc = "uninstalled" /\ extensionInfo # <<>>) =>
          /\ ~extensionInfo[1].isInstalled
          /\ ~extensionInfo[1].hasUpdate
          /\ extensionInfo[1] \in HeldRecords

\* a record with an update pending has just been uninstalled
C28_Witness ==
    /\ pc = "uninstalled"
    /\ extensionInfo # <<>>
    /\ extensionInfo[1].version = V_2_0_0
    /\ \E r \in HeldRecords : r.hasUpdate

====
